---- MODULE Spec2Model ----
(***************************************************************************)
(* StudyBuddy: the session ledger of the user model (addStudySession,      *)
(* updateStreak, checkAchievements), the study routes that drive it        *)
(* (POST /session/stop, DELETE /session/:sessionId, PUT /goal), the friend *)
(* routes, the auth routes and the Socket.io presence relay of             *)
(* backend/index.js. A handler is a sequence of steps, one for each await  *)
(* at which another request can be served.                                 *)
(*                                                                         *)
(* Times are local wall-clock milliseconds counted from local midnight of  *)
(* Friday 31 May 2024 (day 0); day 1 is Saturday 1 June (a month start)    *)
(* and day 2 is Sunday 2 June (a week start).                              *)
(***************************************************************************)
EXTENDS Integers, Sequences, FiniteSets, TLC

VARIABLES
    now,          \* the wall clock read by new Date() / Date.now()
    user,         \* the User document of the requesting user
    nextId,       \* the next _id mongoose gives a studySessions subdocument
    nextScheduleId, \* the next _id mongoose gives a studySchedules subdocument
    resp,         \* the outcome of the last ledger call (HTTP status / return value)
    fired,        \* per achievement type, the number of calls that returned it
    handlers,     \* the requests to the study routes in flight, each with its position
    races,        \* the number of ledger calls made so far with another one in flight
    friendsOf,    \* the friends field of every User document
    sockets,      \* the Socket.io connections the server has seen
    activeUsers,  \* the presence registry: the Map of backend/index.js
    lastEmit,     \* what the handler that ran last published, and who received it
    reply,        \* the online_friends message the handler that ran last sent
    order,        \* per connection and per user, whether the events published so far came in order
    requests,     \* the friend requests the server has received, each with its position
    stored,       \* the User documents of the database the racing stop requests work on
    stops,        \* the stop requests the server has received, each with its position
    plans,        \* the requests to the schedule routes in flight beside them
    accounts,     \* the credentials of every registered user
    issued,       \* the answer of the auth route that ran last, and what it was given
    authCalls,    \* the auth requests in flight, each with its position
    nextUserId    \* the next _id new User(...) gives a document

ledgerVars == <<now, user, nextId, nextScheduleId, resp, fired, handlers, races>>
presenceVars == <<friendsOf, sockets, activeUsers, lastEmit, reply, order>>
raceVars == <<stored, stops, plans>>
authVars == <<accounts, issued, authCalls, nextUserId>>
vars == <<now, user, nextId, nextScheduleId, resp, fired, handlers, races, friendsOf, sockets,
         activeUsers, lastEmit, reply, order, requests, stored, stops, plans, accounts, issued,
         authCalls, nextUserId>>

-----------------------------------------------------------------------------
(* Bounds of the model *)

\* the clock moves in steps of DayMs \div StepsPerDay
StepsPerDay == 2
\* the clock stops after this many steps
MaxTicks == 3
\* the number of session subdocuments the study routes ever create
MaxSessions == 2
\* the number of sessions addStudySession is ever called with by a caller
\* that does not suspend
MaxRecorded == 3
\* the number of connections ever opened
MaxSockets == 2
\* the longest candidate list the get_online_friends handler is evaluated on
MaxCandidates == 2
\* the longest candidate list a client sends in a run
MaxSent == 1

\* the calendar walk stops after this many days
MaxDays == 3
\* the oldest session a client reports in the calendar walk, in days
MaxAge == 2

\* the number of friend requests the server ever receives
MaxRequests == 2

\* the number of stop requests the server ever receives
MaxStops == 2

\* the number of schedules POST /schedule ever creates; the requests name
\* the schedules 1..MaxScheduleId, and a stop request 0 for a body without
\* scheduleId
MaxScheduleId == 1
\* the number of requests to the schedule routes in flight at a time beside
\* the racing stop requests
MaxPlans == 1

\* the number of requests to the study routes in flight at a time
MaxHandlers == 2

\* the number of requests to the study routes that arrive while another one
\* is in flight
MaxRaces == 1

\* the number of auth requests in flight at a time
MaxAuthCalls == 2
\* the number of User documents the register route ever constructs
MaxUsers == 2
\* the clock of the auth routes stops after this many steps: one step is
\* longer than the lifetime of a verification code
MaxAuthTicks == 1

\* the day on which the walk of the long-standing users starts: Wednesday
\* 12 June 2024
WalkStartDay == 12

-----------------------------------------------------------------------------
(* Program constants *)

\* 24 * 60 * 60 * 1000
DayMs == 86400000
\* the shortest session the stop route accepts
MinDurationMs == 1000
\* the longest session the stop route accepts
MaxDurationMs == 24 * 60 * 60 * 1000
\* the default of userSchema.dailyGoal: 2 hours
DefaultDailyGoal == 7200000
\* the least and the greatest daily goal PUT /goal accepts
MinDailyGoal == 900000
MaxDailyGoal == 43200000

\* day 0 of the clock is Friday (getDay() = 5) 31 May 2024; the lengths are
\* those of May, June and July 2024
Epoch == [weekday |-> 5, dayOfMonth |-> 31, monthLengths |-> <<31, 30, 31>>]

ClockStep == DayMs \div StepsPerDay

AchievementTypes ==
    <<"first_session", "five_sessions", "twenty_five_sessions",
      "streak_3", "streak_7", "streak_30", "goal_achiever">>

-----------------------------------------------------------------------------
(* JavaScript values *)

Undefined == [kind |-> "undefined", v |-> 0]
DateOf(t) == [kind |-> "date", v |-> t]
NumberOf(n) == [kind |-> "number", v |-> n]
StringOf(n) == [kind |-> "string", v |-> n]

\* !x is false: dates, non-zero numbers and non-empty strings are truthy
Truthy(x) ==
    \/ x.kind = "date"
    \/ x.kind = "string"
    \/ x.kind = "number" /\ x.v # 0

Max(a, b) == IF a >= b THEN a ELSE b

-----------------------------------------------------------------------------
(* The calendar of Date *)

\* the calendar day a time lies in
DayOf(t) == t \div DayMs

\* setHours(0, 0, 0, 0)
Midnight(t) == DayOf(t) * DayMs

\* getDay(): 0 is Sunday
GetDay(t) == (DayOf(t) + Epoch.weekday) % 7

\* the day index, counted from 1 May, of the first day of the month of
\* day index a, walking the months from May on
RECURSIVE MonthFirst(_, _, _)
MonthFirst(a, m, first) ==
    IF m >= Len(Epoch.monthLengths) \/ a < first + Epoch.monthLengths[m]
    THEN first
    ELSE MonthFirst(a, m + 1, first + Epoch.monthLengths[m])

\* new Date(now.getFullYear(), now.getMonth(), 1), as a day of the clock (the
\* first of May lies more than 2^31 ms before day 0)
MonthStartDay(t) ==
    MonthFirst(DayOf(t) + Epoch.dayOfMonth - 1, 1, 0) - (Epoch.dayOfMonth - 1)

\* date >= monthStart, for the midnight monthStart that begins day d
AtOrAfterDay(date, d) == DayOf(date) >= d

\* new Date(now.getFullYear(), now.getMonth(), now.getDate() - now.getDay())
WeekStartMidnight(t) == Midnight(t) - GetDay(t) * DayMs

\* new Date(now.setDate(now.getDate() - now.getDay())): the time of day is kept
WeekStartSameTime(t) == t - GetDay(t) * DayMs

-----------------------------------------------------------------------------
(* The User document *)

\* new User(...): the defaults of the schema; version is __v, the version
\* key mongoose keeps in every document, and exists tells a stored document
\* from one that findById no longer finds
NewUser ==
    [ studySessions    |-> <<>>,
      studySchedules   |-> <<>>,
      totalStudyTime   |-> 0,
      weeklyStudyTime  |-> 0,
      monthlyStudyTime |-> 0,
      dailyGoal        |-> DefaultDailyGoal,
      currentStreak    |-> 0,
      lastStudyDate    |-> Undefined,
      achievements     |-> <<>>,
      version          |-> 0,
      exists           |-> TRUE ]

\* the document of a user that has been deleted: findById gives null
NoUser == [NewUser EXCEPT !.exists = FALSE]

RECURSIVE SumDurations(_)
SumDurations(ss) ==
    IF ss = <<>> THEN 0 ELSE Head(ss).duration + SumDurations(Tail(ss))

SeqToSet(s) == { s[i] : i \in 1..Len(s) }

-----------------------------------------------------------------------------
(* userSchema.methods.updateStreak *)

\* the mutant of UpdateStreak: a gap does not reset the streak
UpdateStreakNoReset(u, sessionDate, t) ==
    IF ~Truthy(sessionDate) \/ sessionDate.kind # "date"
    THEN u
    ELSE
        LET today == Midnight(t)
            sessionDay == Midnight(sessionDate.v)
        IN  IF ~Truthy(u.lastStudyDate)
            THEN [u EXCEPT !.currentStreak = 1, !.lastStudyDate = DateOf(sessionDay)]
            ELSE IF sessionDay = today /\ Midnight(u.lastStudyDate.v) # today
            THEN [u EXCEPT !.currentStreak = @ + 1, !.lastStudyDate = DateOf(sessionDay)]
            ELSE u

UpdateStreak(u, sessionDate, t) ==
    IF ~Truthy(sessionDate) \/ sessionDate.kind # "date"
    THEN u
    ELSE
        LET today == Midnight(t)
            yesterday == today - DayMs
            sessionDay == Midnight(sessionDate.v)
        IN  IF ~Truthy(u.lastStudyDate)
            THEN [u EXCEPT !.currentStreak = 1, !.lastStudyDate = DateOf(sessionDay)]
            ELSE
                LET lastStudyDay == Midnight(u.lastStudyDate.v)
                IN  IF sessionDay = today
                    THEN IF lastStudyDay = yesterday
                         THEN [u EXCEPT !.currentStreak = @ + 1,
                                        !.lastStudyDate = DateOf(sessionDay)]
                         ELSE IF lastStudyDay = today
                         THEN u
                         ELSE [u EXCEPT !.currentStreak = 1,
                                        !.lastStudyDate = DateOf(sessionDay)]
                    ELSE u

-----------------------------------------------------------------------------
(* userSchema.methods.checkAchievements *)

\* this.achievements.some(a => a && a.type === type)
HasAchievement(achievements, type) ==
    \E i \in 1..Len(achievements) : achievements[i].type = type

\* the sessions that started at or after weekAgo, grouped by toDateString():
\* the sum of the durations of those of calendar day d
DayGroup(ss, weekAgo, d) ==
    SumDurations(SelectSeq(ss, LAMBDA x : x.startTime >= weekAgo /\ DayOf(x.startTime) = d))

\* the mutant of GoalDays: the sessions of every day count, not only those
\* of the last seven days
GoalDaysEver(u, t) ==
    LET days == { DayOf(u.studySessions[i].startTime) : i \in 1..Len(u.studySessions) }
    IN  Cardinality({ d \in days :
            SumDurations(SelectSeq(u.studySessions, LAMBDA x : DayOf(x.startTime) = d))
                >= u.dailyGoal })

\* the number of groups whose sum reaches the daily goal
GoalDays(u, t) ==
    LET weekAgo == t - 7 * DayMs
        days == { DayOf(u.studySessions[i].startTime) : i \in 1..Len(u.studySessions) }
    IN  Cardinality({ d \in days : DayGroup(u.studySessions, weekAgo, d) >= u.dailyGoal })

\* the rule table, in the order the rules are tested
RuleHolds(u, t, type) ==
    CASE type = "first_session"        -> Len(u.studySessions) = 1
      [] type = "five_sessions"        -> Len(u.studySessions) >= 5
      [] type = "twenty_five_sessions" -> Len(u.studySessions) >= 25
      [] type = "streak_3"             -> u.currentStreak >= 3
      [] type = "streak_7"             -> u.currentStreak >= 7
      [] type = "streak_30"            -> u.currentStreak >= 30
      [] type = "goal_achiever"        -> GoalDays(u, t) >= 7

\* newAchievements: the types whose rule holds and that are not yet stored
NewAchievements(u, t) ==
    SelectSeq(AchievementTypes,
              LAMBDA type : RuleHolds(u, t, type) /\ ~HasAchievement(u.achievements, type))

\* newAchievements.forEach(type => { try { this.achievements.push({ type,
\* date: new Date() }) } catch (pushError) { ... } }): the schema declares
\* achievements as [{ type: String, date: {...} }], which mongoose reads as
\* an array of String (the key named type gives the type of the elements),
\* so the push of an object is refused with a CastError, the catch swallows
\* it, and nothing is stored
PushAchievements(achievements, types, t) == achievements

\* the updated document and the returned list
CheckAchievements(u, t) ==
    LET new == NewAchievements(u, t)
    IN  [ user |-> [u EXCEPT !.achievements = PushAchievements(@, new, t)],
          ret  |-> new ]

-----------------------------------------------------------------------------
(* userSchema.methods.addStudySession *)

\* the mutant of ValidSession: the endTime and the duration <= 0 tests are missing
ValidSessionLax(session) ==
    /\ session.isObject
    /\ Truthy(session.startTime)
    /\ Truthy(session.duration)
    /\ session.duration.kind = "number"

\* the three validation tests that precede the push
ValidSession(session) ==
    /\ session.isObject
    /\ ~(~Truthy(session.startTime) \/ ~Truthy(session.endTime) \/ ~Truthy(session.duration))
    /\ ~(session.duration.kind # "number" \/ session.duration.v <= 0)

\* the subdocument mongoose stores for a pushed session
Subdocument(session, id) ==
    [ id        |-> id,
      startTime |-> session.startTime.v,
      endTime   |-> session.endTime.v,
      duration  |-> session.duration.v ]

\* the mutant of AddToTotals: weeklyStudyTime counts every session
AddToTotalsAnyWeek(u, session, t, id) ==
    LET d == session.duration.v
        start == session.startTime.v
    IN  [u EXCEPT
            !.studySessions    = Append(@, Subdocument(session, id)),
            !.totalStudyTime   = @ + d,
            !.weeklyStudyTime  = @ + d,
            !.monthlyStudyTime = IF AtOrAfterDay(start, MonthStartDay(t)) THEN @ + d ELSE @ ]

\* the push and the three counters
AddToTotals(u, session, t, id) ==
    LET d == session.duration.v
        start == session.startTime.v
    IN  [u EXCEPT
            !.studySessions    = Append(@, Subdocument(session, id)),
            !.totalStudyTime   = @ + d,
            !.weeklyStudyTime  = IF start >= WeekStartMidnight(t) THEN @ + d ELSE @,
            !.monthlyStudyTime = IF AtOrAfterDay(start, MonthStartDay(t)) THEN @ + d ELSE @ ]

\* the blocks of the method that catch what is thrown inside them
Blocks == {"stats", "streak", "achievements"}

\* the push and totalStudyTime, which precede the stats block
PushAndTotal(u, session, id) ==
    [u EXCEPT !.studySessions  = Append(@, Subdocument(session, id)),
              !.totalStudyTime = @ + session.duration.v ]

\* the mutant of AddStudySessionFailing: what a block throws is thrown on
AddStudySessionAborting(u, session, t, id, failing) ==
    IF ~ValidSession(session) \/ failing # {}
    THEN [ user |-> u, threw |-> TRUE, ret |-> <<>> ]
    ELSE
        LET counted == AddToTotals(u, session, t, id)
            streaked == UpdateStreak(counted, session.startTime, t)
            checked == CheckAchievements(streaked, t)
        IN  [ user |-> checked.user, threw |-> FALSE, ret |-> checked.ret ]

\* the whole method when the blocks of failing throw at their first
\* statement: threw is TRUE when the validation error is re-thrown
AddStudySessionFailing(u, session, t, id, failing) ==
    IF ~ValidSession(session)
    THEN [ user |-> u, threw |-> TRUE, ret |-> <<>> ]
    ELSE
        LET counted == IF "stats" \in failing
                       THEN PushAndTotal(u, session, id)
                       ELSE AddToTotals(u, session, t, id)
            streaked == IF "streak" \in failing
                        THEN counted
                        ELSE UpdateStreak(counted, session.startTime, t)
            checked == IF "achievements" \in failing
                       THEN [ user |-> streaked, ret |-> <<>> ]
                       ELSE CheckAchievements(streaked, t)
        IN  [ user |-> checked.user, threw |-> FALSE, ret |-> checked.ret ]

\* the whole method when nothing is thrown inside its blocks
AddStudySession(u, session, t, id) == AddStudySessionFailing(u, session, t, id, {})

-----------------------------------------------------------------------------
(* router.delete('/session/:sessionId') *)

\* user.studySessions.id(sessionId): the index of the subdocument, 0 for null
SessionIndex(ss, sessionId) ==
    IF \E i \in 1..Len(ss) : ss[i].id = sessionId
    THEN CHOOSE i \in 1..Len(ss) : ss[i].id = sessionId
    ELSE 0

\* user.studySessions.pull(sessionId)
Pull(ss, sessionId) == SelectSeq(ss, LAMBDA x : x.id # sessionId)

\* the mutant of SubtractFromTotals: totalStudyTime is left as it was
SubtractStaleTotal(u, session, t) ==
    [u EXCEPT
        !.weeklyStudyTime  = IF session.startTime >= WeekStartSameTime(t)
                             THEN Max(0, @ - session.duration) ELSE @,
        !.monthlyStudyTime = IF AtOrAfterDay(session.startTime, MonthStartDay(WeekStartSameTime(t)))
                             THEN Max(0, @ - session.duration) ELSE @ ]

\* the mutant of SubtractFromTotals: the counters are not clamped at 0
SubtractUnclamped(u, session, t) ==
    [u EXCEPT
        !.totalStudyTime   = @ - session.duration,
        !.weeklyStudyTime  = IF session.startTime >= WeekStartSameTime(t)
                             THEN @ - session.duration ELSE @,
        !.monthlyStudyTime = IF AtOrAfterDay(session.startTime, MonthStartDay(WeekStartSameTime(t)))
                             THEN @ - session.duration ELSE @ ]

\* the three clamped subtractions; monthStart is taken from now after
\* now.setDate(...) has moved it to the week start
SubtractFromTotals(u, session, t) ==
    [u EXCEPT
        !.totalStudyTime   = Max(0, @ - session.duration),
        !.weeklyStudyTime  = IF session.startTime >= WeekStartSameTime(t)
                             THEN Max(0, @ - session.duration) ELSE @,
        !.monthlyStudyTime = IF AtOrAfterDay(session.startTime, MonthStartDay(WeekStartSameTime(t)))
                             THEN Max(0, @ - session.duration) ELSE @ ]

\* the mutant of DeleteSession: a missing session is not reported and the
\* duration of the last session is subtracted in its place
DeleteSessionNoGuard(u, sessionId, t) ==
    LET i == SessionIndex(u.studySessions, sessionId)
        j == IF i = 0 THEN Len(u.studySessions) ELSE i
    IN  IF j = 0
        THEN [ user |-> u, status |-> 404 ]
        ELSE [ user |-> [SubtractFromTotals(u, u.studySessions[j], t)
                            EXCEPT !.studySessions = Pull(@, sessionId)],
               status |-> IF i = 0 THEN 404 ELSE 200 ]

\* the mutant of DeleteSession: the streak is recomputed when the history
\* becomes empty
DeleteSessionResetting(u, sessionId, t) ==
    LET i == SessionIndex(u.studySessions, sessionId)
    IN  IF i = 0
        THEN [ user |-> u, status |-> 404 ]
        ELSE LET left == [SubtractFromTotals(u, u.studySessions[i], t)
                             EXCEPT !.studySessions = Pull(@, sessionId)]
             IN  [ user |-> IF left.studySessions = <<>>
                            THEN [left EXCEPT !.currentStreak = 0,
                                              !.lastStudyDate = Undefined]
                            ELSE left,
                   status |-> 200 ]

\* the handler on the loaded document: the document saved and the status
DeleteSession(u, sessionId, t) ==
    LET i == SessionIndex(u.studySessions, sessionId)
    IN  IF i = 0
        THEN [ user |-> u, status |-> 404 ]
        ELSE [ user |-> [SubtractFromTotals(u, u.studySessions[i], t)
                            EXCEPT !.studySessions = Pull(@, sessionId)],
               status |-> 200 ]


-----------------------------------------------------------------------------
(* The ledger as a state machine *)

NoSession == [isObject |-> FALSE, startTime |-> Undefined, endTime |-> Undefined,
              duration |-> Undefined]

NoCall == [op |-> "none", status |-> 0, threw |-> FALSE, ret |-> <<>>]

\* the start times a client sends to the stop route: absent, unparseable, in
\* the future, now, and up to one step more than a day ago
ClientStartTimes(t) ==
    {Undefined, StringOf(0)} \cup { DateOf(t - k * ClockStep) : k \in -1..(StepsPerDay + 1) }

\* the session the stop route would build for a session one step long
GoodSession(t) ==
    [ isObject  |-> TRUE,
      startTime |-> DateOf(t - ClockStep),
      endTime   |-> DateOf(t),
      duration  |-> NumberOf(ClockStep) ]

\* the arguments addStudySession is called with: a well-formed session, no
\* object at all, and the well-formed session with one field absent or with
\* a duration that is a string, zero or negative
SessionInputs(t) ==
    { GoodSession(t), NoSession,
      [GoodSession(t) EXCEPT !.startTime = Undefined],
      [GoodSession(t) EXCEPT !.endTime = Undefined],
      [GoodSession(t) EXCEPT !.duration = Undefined],
      [GoodSession(t) EXCEPT !.duration = StringOf(ClockStep)],
      [GoodSession(t) EXCEPT !.duration = NumberOf(0)],
      [GoodSession(t) EXCEPT !.duration = NumberOf(0 - ClockStep)] }

\* the calls that returned each type, counted
CountFired(f, ret) ==
    [ type \in DOMAIN f |-> IF type \in SeqToSet(ret) THEN f[type] + 1 ELSE f[type] ]

\* the handlers of the study routes that can be in flight at a time
HandlerIds == 1..MaxHandlers

\* a handler slot no request occupies
NoHandler ==
    [ route |-> "none", pc |-> "idle", session |-> NoSession, loaded |-> NewUser,
      doc |-> NewUser, ret |-> <<>> ]

LedgerInit ==
    /\ now = 0
    /\ user = NewUser
    /\ nextId = 1
    /\ nextScheduleId = 1
    /\ resp = NoCall
    /\ fired = [ type \in SeqToSet(AchievementTypes) |-> 0 ]
    /\ handlers = [h \in HandlerIds |-> NoHandler]
    /\ races = 0

\* the slot a request that arrives is given: the lowest one that is free
FreeHandler(h) ==
    /\ handlers[h].pc = "idle"
    /\ \A g \in 1..(h - 1) : handlers[g].pc # "idle"

\* the requests in flight
InFlight == { h \in HandlerIds : handlers[h].pc # "idle" }

\* the stop requests that wait for User.findById
Loading == { h \in HandlerIds : handlers[h].pc = "loading" }

\* a call is made: with another one in flight it is counted, and at most
\* MaxRaces such calls are made
Overlaps ==
    IF InFlight = {}
    THEN UNCHANGED races
    ELSE races < MaxRaces /\ races' = races + 1

\* time passes, whether or not a request is suspended at an await
Tick ==
    /\ now < MaxTicks * ClockStep
    /\ now' = now + ClockStep
    /\ UNCHANGED <<user, nextId, nextScheduleId, resp, fired, handlers, races>>
    /\ UNCHANGED <<presenceVars, requests, raceVars, authVars>>

\* the mutant of StopValidation: no session is too long
StopValidationNoMaximum(startTime, t) ==
    IF ~Truthy(startTime) THEN 400
    ELSE IF startTime.kind # "date" THEN 400
    ELSE IF startTime.v > t THEN 400
    ELSE IF t - startTime.v < MinDurationMs THEN 400
    ELSE 0

\* router.post('/session/stop'): the status the validation of the body ends
\* with, 0 when the request goes on; t is the clock when the request arrives
StopValidation(startTime, t) ==
    IF ~Truthy(startTime) THEN 400
    ELSE IF startTime.kind # "date" THEN 400
    ELSE IF startTime.v > t THEN 400
    ELSE IF t - startTime.v < MinDurationMs THEN 400
    ELSE IF t - startTime.v > MaxDurationMs THEN 400
    ELSE 0

\* sessionData as the stop route builds it when the request arrives at t
SessionData(startTime, t) ==
    [ isObject  |-> TRUE,
      startTime |-> startTime,
      endTime   |-> DateOf(t),
      duration  |-> NumberOf(t - startTime.v) ]

\* the values of body.scheduleId: 0 is the body without it, which fails the
\* test if (scheduleId)
ScheduleIds == 0..MaxScheduleId

\* user.studySchedules.id(scheduleId): the index of the schedule, 0 for null
ScheduleIndex(schedules, scheduleId) ==
    IF \E i \in 1..Len(schedules) : schedules[i].id = scheduleId
    THEN CHOOSE i \in 1..Len(schedules) : schedules[i].id = scheduleId
    ELSE 0

\* the schedule POST /schedule pushes to studySchedules
NewSchedule(id, startTime, endTime) ==
    [ id |-> id, startTime |-> startTime, endTime |-> endTime,
      completed |-> FALSE, completedSessions |-> <<>> ]

\* the element an update makes at a position of studySchedules that holds
\* none: it has no _id and no times
NoSchedule == NewSchedule(0, 0, 0)

\* the end times the clients plan with: a day from 0 for a new schedule, one
\* step from 0 when a schedule is updated
NewEndTimes == {DayMs}
UpdatedEndTimes == {ClockStep}

\* router.post('/schedule') after findById: scheduleData is pushed to
\* studySchedules of the copy, where it is given the _id id
AddSchedule(u, id, startTime, endTime) ==
    [u EXCEPT !.studySchedules = Append(@, NewSchedule(id, startTime, endTime))]

\* router.put('/schedule/:scheduleId') after findById, for a body that
\* carries endTime and nothing else: 404 when the id names no schedule of
\* the copy, else endTime is set on it when it is truthy, and user.save()
\* is awaited (status 0)
EditSchedule(u, scheduleId, endTime) ==
    LET i == ScheduleIndex(u.studySchedules, scheduleId)
    IN  IF i = 0
        THEN [user |-> u, status |-> 404]
        ELSE [user |-> [u EXCEPT !.studySchedules[i].endTime =
                                     IF endTime # 0 THEN endTime ELSE @],
              status |-> 0]

\* router.delete('/schedule/:scheduleId'): findByIdAndUpdate with
\* $pull: { studySchedules: { _id: scheduleId } }, which leaves the version
\* as it is
PullSchedule(u, scheduleId) ==
    [u EXCEPT !.studySchedules = SelectSeq(@, LAMBDA x : x.id # scheduleId)]

\* if (scheduleId) { ... }: the session is pushed to completedSessions of
\* the schedule the id names, with the clock t as its date, and the schedule
\* is completed when the durations recorded for it reach its planned length
MarkProgress(u, scheduleId, session, t) ==
    LET i == ScheduleIndex(u.studySchedules, scheduleId)
    IN  IF scheduleId = 0 \/ i = 0
        THEN u
        ELSE LET schedule == u.studySchedules[i]
                 sessions == Append(schedule.completedSessions,
                                    [ date            |-> t,
                                      duration        |-> session.duration.v,
                                      actualStartTime |-> session.startTime.v,
                                      actualEndTime   |-> session.endTime.v ])
                 totalScheduleDuration == SumDurations(sessions)
                 plannedDuration == schedule.endTime - schedule.startTime
             IN  [u EXCEPT !.studySchedules[i] =
                     [schedule EXCEPT
                         !.completedSessions = sessions,
                         !.completed = IF totalScheduleDuration >= plannedDuration
                                       THEN TRUE ELSE @]]

\* router.post('/session/stop') up to await user.save(), for a request that
\* arrives at t and whose User.findById resolves at found with the document
\* u: the document that is saved, the status of the answer and the
\* achievements it carries
StopRoute(u, startTime, scheduleId, t, found, id) ==
    LET status == StopValidation(startTime, t)
        session == SessionData(startTime, t)
    IN  IF status # 0
        THEN [user |-> u, status |-> status, ret |-> <<>>]
        ELSE IF ~u.exists
        THEN [user |-> u, status |-> 404, ret |-> <<>>]
        ELSE LET r == AddStudySession(u, session, found, id)
             IN  IF r.threw
                 THEN [user |-> u, status |-> 500, ret |-> <<>>]
                 ELSE [user |-> MarkProgress(r.user, scheduleId, session, found),
                       status |-> 200, ret |-> r.ret]

\* the paths of the document that hold one value
ScalarPaths ==
    {"totalStudyTime", "weeklyStudyTime", "monthlyStudyTime", "currentStreak",
     "lastStudyDate", "dailyGoal"}

\* the mutant of SaveDelta: save writes the pushed and pulled subdocuments
\* and no other path
SaveArraysOnly(db, loaded, doc) ==
    LET ids(ss) == { ss[i].id : i \in 1..Len(ss) }
    IN  [db EXCEPT
            !.studySessions =
                SelectSeq(@, LAMBDA x : x.id \notin ids(loaded.studySessions) \ ids(doc.studySessions))
                    \o SelectSeq(doc.studySessions,
                                 LAMBDA x : x.id \notin ids(loaded.studySessions)) ]

\* user.save() rejects with a VersionError and nothing is written: the save
\* writes a path under an index of an array (a field of a schedule the
\* copy was loaded with), so it asks for the version the document was
\* loaded with, and the stored document no longer has it
SaveRejected(db, loaded, doc) ==
    /\ db.version # loaded.version
    /\ \E i \in 1..Len(loaded.studySchedules) :
           doc.studySchedules[i] # loaded.studySchedules[i]

\* user.save() of a document that was loaded as loaded and is now doc, on the
\* stored document db: $set of the paths whose value was changed, $pull of
\* the subdocuments that were pulled, $push of those that were pushed and of
\* the elements that were appended to achievements and to studySchedules;
\* the changes to a schedule the copy was loaded with are written by its
\* position, studySchedules.i.completedSessions with $push and the other
\* fields with $set, and at a position the stored array does not reach they
\* make an element; a save that pushes to an array or pulls from one adds 1
\* to the version
SaveDelta(db, loaded, doc) ==
    LET Written(path) == IF doc[path] # loaded[path] THEN doc[path] ELSE db[path]
        ids(ss) == { ss[i].id : i \in 1..Len(ss) }
        pulled == ids(loaded.studySessions) \ ids(doc.studySessions)
        pushed == SelectSeq(doc.studySessions,
                            LAMBDA x : x.id \notin ids(loaded.studySessions))
        Appended(was, is) == SubSeq(is, Len(was) + 1, Len(is))
        was(i) == loaded.studySchedules[i]
        is(i) == doc.studySchedules[i]
        changed == { i \in 1..Len(loaded.studySchedules) : is(i) # was(i) }
        reach == IF \E i \in changed : i > Len(db.studySchedules)
                 THEN CHOOSE i \in changed : \A j \in changed : j <= i
                 ELSE Len(db.studySchedules)
        At(i) == IF i <= Len(db.studySchedules) THEN db.studySchedules[i] ELSE NoSchedule
        changesArray ==
            \/ pulled # {}
            \/ pushed # <<>>
            \/ Appended(loaded.achievements, doc.achievements) # <<>>
            \/ Appended(loaded.studySchedules, doc.studySchedules) # <<>>
            \/ \E i \in changed : Appended(was(i).completedSessions,
                                            is(i).completedSessions) # <<>>
    IN  [db EXCEPT
            !.studySchedules   =
                [ i \in 1..reach |->
                    IF i \notin changed
                    THEN At(i)
                    ELSE [At(i) EXCEPT
                             !.startTime = IF is(i).startTime # was(i).startTime
                                           THEN is(i).startTime ELSE @,
                             !.endTime   = IF is(i).endTime # was(i).endTime
                                           THEN is(i).endTime ELSE @,
                             !.completed = IF is(i).completed # was(i).completed
                                           THEN is(i).completed ELSE @,
                             !.completedSessions =
                                 @ \o Appended(was(i).completedSessions,
                                               is(i).completedSessions)] ]
                    \o Appended(loaded.studySchedules, doc.studySchedules),
            !.version          = IF changesArray THEN @ + 1 ELSE @,
            !.totalStudyTime   = Written("totalStudyTime"),
            !.weeklyStudyTime  = Written("weeklyStudyTime"),
            !.monthlyStudyTime = Written("monthlyStudyTime"),
            !.currentStreak    = Written("currentStreak"),
            !.lastStudyDate    = Written("lastStudyDate"),
            !.dailyGoal        = Written("dailyGoal"),
            !.studySessions    = SelectSeq(@, LAMBDA x : x.id \notin pulled) \o pushed,
            !.achievements     = @ \o Appended(loaded.achievements, doc.achievements) ]

\* POST /session/stop with body.startTime = startTime arrives: endTime is
\* read from the clock, the body is validated against it, sessionData is
\* built and User.findById is awaited
StopSession(h, startTime) ==
    LET status == StopValidation(startTime, now)
    IN  /\ FreeHandler(h)
        /\ IF status # 0
           THEN /\ resp' = [NoCall EXCEPT !.op = "stop", !.status = status]
                /\ UNCHANGED <<handlers, races>>
           ELSE /\ nextId + Cardinality(Loading) <= MaxSessions
                /\ handlers' = [handlers EXCEPT ![h] =
                       [NoHandler EXCEPT !.route = "stop", !.pc = "loading",
                                         !.session = SessionData(startTime, now)]]
                /\ Overlaps
                /\ UNCHANGED resp
        /\ UNCHANGED <<now, user, nextId, nextScheduleId, fired>>
        /\ UNCHANGED <<presenceVars, requests, raceVars, authVars>>

\* User.findById of a stop request whose body carries scheduleId resolves:
\* 404 when the user is gone, else addStudySession runs on the copy of the
\* stored document, with the session built on arrival and the clock as it
\* is now, the progress of the schedule is marked and user.save() is awaited
StopLoaded(h, scheduleId) ==
    LET q == handlers[h]
        r == AddStudySession(user, q.session, now, nextId)
    IN  /\ q.route = "stop"
        /\ q.pc = "loading"
        /\ IF ~user.exists \/ r.threw
           THEN /\ resp' = [NoCall EXCEPT !.op = "stop",
                                          !.status = IF ~user.exists THEN 404 ELSE 500]
                /\ handlers' = [handlers EXCEPT ![h] = NoHandler]
                /\ UNCHANGED nextId
           ELSE /\ handlers' = [handlers EXCEPT ![h] =
                       [q EXCEPT !.pc = "saving", !.loaded = user,
                                 !.doc = MarkProgress(r.user, scheduleId, q.session, now),
                                 !.ret = r.ret]]
                /\ nextId' = nextId + 1
                /\ UNCHANGED resp
        /\ UNCHANGED <<now, user, nextScheduleId, fired, races>>
        /\ UNCHANGED <<presenceVars, requests, raceVars, authVars>>

\* user.addStudySession(session), a call that does not suspend, on the
\* stored document, as long as fewer than limit subdocuments have been
\* created
RecordUpTo(session, limit) ==
    LET r == AddStudySession(user, session, now, nextId)
    IN  /\ r.threw \/ nextId <= limit
        /\ user' = r.user
        /\ nextId' = IF r.threw THEN nextId ELSE nextId + 1
        /\ fired' = CountFired(fired, r.ret)
        /\ resp' = [NoCall EXCEPT !.op = "addStudySession", !.threw = r.threw,
                                  !.ret = r.ret]
        /\ Overlaps
        /\ UNCHANGED <<now, nextScheduleId, handlers>>
        /\ UNCHANGED <<presenceVars, requests, raceVars, authVars>>

RecordSession(session) == RecordUpTo(session, MaxRecorded)

\* user.addStudySession(session) called while the blocks of failing throw
RecordFailing(session, failing) ==
    LET r == AddStudySessionFailing(user, session, now, nextId, failing)
    IN  /\ nextId <= MaxRecorded
        /\ user' = r.user
        /\ nextId' = IF r.threw THEN nextId ELSE nextId + 1
        /\ fired' = CountFired(fired, r.ret)
        /\ resp' = [NoCall EXCEPT !.op = "addStudySession", !.threw = r.threw,
                                  !.ret = r.ret]
        /\ Overlaps
        /\ UNCHANGED <<now, nextScheduleId, handlers>>
        /\ UNCHANGED <<presenceVars, requests, raceVars, authVars>>

FailingNext ==
    \/ Tick
    \/ \E session \in SessionInputs(now) : RecordSession(session)
    \/ \E failing \in SUBSET Blocks : RecordFailing(GoodSession(now), failing)

\* DELETE /session/:sessionId, up to await user.save(). The handler reads
\* nothing before User.findById resolves, so its arrival and the
\* resolution are one step: 500 when the user is gone (studySessions of
\* null throws), 404 when the session is not in the copy of the stored
\* document, else the handler subtracts and pulls on the copy
RemoveSession(h, sessionId) ==
    LET r == DeleteSession(user, sessionId, now)
    IN  /\ FreeHandler(h)
        /\ IF ~user.exists \/ r.status = 404
           THEN /\ resp' = [NoCall EXCEPT !.op = "delete",
                                          !.status = IF ~user.exists THEN 500 ELSE 404]
                /\ UNCHANGED <<handlers, races>>
           ELSE /\ handlers' = [handlers EXCEPT ![h] =
                       [NoHandler EXCEPT !.route = "delete", !.pc = "saving",
                                         !.loaded = user, !.doc = r.user]]
                /\ Overlaps
                /\ UNCHANGED resp
        /\ UNCHANGED <<now, user, nextId, nextScheduleId, fired>>
        /\ UNCHANGED <<presenceVars, requests, raceVars, authVars>>

\* router.put('/goal'): the status the validation of the body ends with, 0
\* when the request goes on
GoalValidation(dailyGoal) ==
    IF ~Truthy(dailyGoal) THEN 400
    ELSE IF dailyGoal.v < MinDailyGoal THEN 400
    ELSE IF dailyGoal.v > MaxDailyGoal THEN 400
    ELSE 0

\* the goals a client sends: none, and those around the two limits of the
\* validation
GoalInputs ==
    {Undefined} \cup { NumberOf(g) : g \in {0, MinDailyGoal - 1, MinDailyGoal, MaxDailyGoal,
                                              MaxDailyGoal + 1} }

\* PUT /goal with body.dailyGoal = dailyGoal, up to await user.save(). The
\* validation reads the body only, so the arrival and the resolution of
\* User.findById are one step: 500 when the user is gone (dailyGoal of null
\* throws), else user.dailyGoal is set on the copy of the stored document
SetGoal(h, dailyGoal) ==
    LET status == GoalValidation(dailyGoal)
    IN  /\ FreeHandler(h)
        /\ IF status # 0 \/ ~user.exists
           THEN /\ resp' = [NoCall EXCEPT !.op = "goal",
                                          !.status = IF status # 0 THEN status ELSE 500]
                /\ UNCHANGED <<handlers, races>>
           ELSE /\ handlers' = [handlers EXCEPT ![h] =
                       [NoHandler EXCEPT !.route = "goal", !.pc = "saving",
                                         !.loaded = user,
                                         !.doc = [user EXCEPT !.dailyGoal = dailyGoal.v]]]
                /\ Overlaps
                /\ UNCHANGED resp
        /\ UNCHANGED <<now, user, nextId, nextScheduleId, fired>>
        /\ UNCHANGED <<presenceVars, requests, raceVars, authVars>>

\* POST /schedule with body.endTime = endTime and body.startTime = 0, up to
\* await user.save(). The handler reads the body only before User.findById
\* resolves, so its arrival and the resolution are one step: 500 when the
\* user is gone (studySchedules of null throws), else the schedule is
\* pushed to the copy of the stored document
CreateSchedule(h, endTime) ==
    /\ FreeHandler(h)
    /\ IF ~user.exists
       THEN /\ resp' = [NoCall EXCEPT !.op = "schedule", !.status = 500]
            /\ UNCHANGED <<handlers, races, nextScheduleId>>
       ELSE /\ nextScheduleId <= MaxScheduleId
            /\ handlers' = [handlers EXCEPT ![h] =
                   [NoHandler EXCEPT !.route = "schedule", !.pc = "saving",
                                     !.loaded = user,
                                     !.doc = AddSchedule(user, nextScheduleId, 0, endTime)]]
            /\ nextScheduleId' = nextScheduleId + 1
            /\ Overlaps
            /\ UNCHANGED resp
    /\ UNCHANGED <<now, user, nextId, fired>>
    /\ UNCHANGED <<presenceVars, requests, raceVars, authVars>>

\* PUT /schedule/:scheduleId with body.endTime = endTime, up to await
\* user.save(); arrival and the resolution of User.findById are one step:
\* 500 when the user is gone, 404 when the id names no schedule of the copy
UpdateSchedule(h, scheduleId, endTime) ==
    LET r == EditSchedule(user, scheduleId, endTime)
    IN  /\ FreeHandler(h)
        /\ IF ~user.exists \/ r.status = 404
           THEN /\ resp' = [NoCall EXCEPT !.op = "reschedule",
                                          !.status = IF ~user.exists THEN 500 ELSE 404]
                /\ UNCHANGED <<handlers, races>>
           ELSE /\ handlers' = [handlers EXCEPT ![h] =
                       [NoHandler EXCEPT !.route = "reschedule", !.pc = "saving",
                                         !.loaded = user, !.doc = r.user]]
                /\ Overlaps
                /\ UNCHANGED resp
        /\ UNCHANGED <<now, user, nextId, nextScheduleId, fired>>
        /\ UNCHANGED <<presenceVars, requests, raceVars, authVars>>

\* DELETE /schedule/:scheduleId: findByIdAndUpdate pulls the schedule from
\* the stored document in one update and the route answers 200, also when
\* no user or no schedule has the id; 500 when the update fails
DeleteSchedule(scheduleId, failed) ==
    /\ user' = IF failed \/ ~user.exists THEN user ELSE PullSchedule(user, scheduleId)
    /\ resp' = [NoCall EXCEPT !.op = "unschedule",
                              !.status = IF failed THEN 500 ELSE 200]
    /\ Overlaps
    /\ UNCHANGED <<now, nextId, nextScheduleId, fired, handlers>>
    /\ UNCHANGED <<presenceVars, requests, raceVars, authVars>>

\* await user.save() of a study route resolves: 500 when the save was
\* rejected for the version of the stored document; else the changes are
\* written, and the route answers 200, but for POST /schedule, which awaits
\* sendSessionNotification first
Saved(h) ==
    LET q == handlers[h]
    IN  /\ q.pc = "saving"
        /\ user.exists
        /\ IF SaveRejected(user, q.loaded, q.doc)
           THEN /\ resp' = [NoCall EXCEPT !.op = q.route, !.status = 500]
                /\ handlers' = [handlers EXCEPT ![h] = NoHandler]
                /\ UNCHANGED <<user, fired>>
           ELSE /\ user' = SaveDelta(user, q.loaded, q.doc)
                /\ IF q.route = "schedule"
                   THEN /\ handlers' = [handlers EXCEPT ![h] =
                               [NoHandler EXCEPT !.route = q.route, !.pc = "mailing"]]
                        /\ UNCHANGED <<resp, fired>>
                   ELSE /\ resp' = [NoCall EXCEPT !.op = q.route, !.status = 200,
                                                  !.ret = q.ret]
                        /\ fired' = CountFired(fired, q.ret)
                        /\ handlers' = [handlers EXCEPT ![h] = NoHandler]
        /\ UNCHANGED <<now, nextId, nextScheduleId, races>>
        /\ UNCHANGED <<presenceVars, requests, raceVars, authVars>>

\* await user.save() of a study route rejects (the database fails, or the
\* document has been deleted meanwhile): nothing is stored and the route
\* answers 500, the stop route from its own catch and the others from the
\* catch of the handler
SaveFailed(h) ==
    LET q == handlers[h]
    IN  /\ q.pc = "saving"
        /\ resp' = [NoCall EXCEPT !.op = q.route, !.status = 500]
        /\ handlers' = [handlers EXCEPT ![h] = NoHandler]
        /\ UNCHANGED <<now, user, nextId, nextScheduleId, fired, races>>
        /\ UNCHANGED <<presenceVars, requests, raceVars, authVars>>

\* sendSessionNotification of POST /schedule resolves or rejects (the
\* rejection is caught and logged): the route answers 200
ScheduleMailed(h) ==
    LET q == handlers[h]
    IN  /\ q.pc = "mailing"
        /\ resp' = [NoCall EXCEPT !.op = q.route, !.status = 200]
        /\ handlers' = [handlers EXCEPT ![h] = NoHandler]
        /\ UNCHANGED <<now, user, nextId, nextScheduleId, fired, races>>
        /\ UNCHANGED <<presenceVars, requests, raceVars, authVars>>

\* User.findByIdAndDelete of the register request that created the user
\* resolves: the document is gone
AccountDeleted ==
    /\ user.exists
    /\ user' = NoUser
    /\ UNCHANGED <<now, nextId, nextScheduleId, resp, fired, handlers, races>>
    /\ UNCHANGED <<presenceVars, requests, raceVars, authVars>>

LedgerNext ==
    \/ Tick
    \/ \E h \in HandlerIds, startTime \in ClientStartTimes(now) : StopSession(h, startTime)
    \/ \E h \in HandlerIds, scheduleId \in ScheduleIds : StopLoaded(h, scheduleId)
    \/ \E h \in HandlerIds, sessionId \in 1..MaxSessions : RemoveSession(h, sessionId)
    \/ \E h \in HandlerIds, dailyGoal \in GoalInputs : SetGoal(h, dailyGoal)
    \/ \E h \in HandlerIds, endTime \in NewEndTimes : CreateSchedule(h, endTime)
    \/ \E h \in HandlerIds, scheduleId \in 1..MaxScheduleId, endTime \in UpdatedEndTimes :
           UpdateSchedule(h, scheduleId, endTime)
    \/ \E scheduleId \in 1..MaxScheduleId, failed \in BOOLEAN :
           DeleteSchedule(scheduleId, failed)
    \/ \E h \in HandlerIds : Saved(h)
    \/ \E h \in HandlerIds : ScheduleMailed(h)
    \/ \E h \in HandlerIds : SaveFailed(h)
    \/ AccountDeleted

\* the stop and delete routes of a user whose document stays, when every
\* request is answered before the next one arrives
SequenceNext ==
    \/ Tick
    \/ /\ InFlight = {}
       /\ \E h \in HandlerIds, startTime \in ClientStartTimes(now) : StopSession(h, startTime)
    \/ \E h \in HandlerIds, scheduleId \in ScheduleIds : StopLoaded(h, scheduleId)
    \/ /\ InFlight = {}
       /\ \E h \in HandlerIds, sessionId \in 1..MaxSessions : RemoveSession(h, sessionId)
    \/ \E h \in HandlerIds : Saved(h)
    \/ \E h \in HandlerIds : SaveFailed(h)

\* the stop route and the schedule routes of a user, with requests that
\* overlap, and the register request that deletes the user
PlannerNext ==
    \/ Tick
    \/ \E h \in HandlerIds, startTime \in ClientStartTimes(now) : StopSession(h, startTime)
    \/ \E h \in HandlerIds, scheduleId \in ScheduleIds : StopLoaded(h, scheduleId)
    \/ \E h \in HandlerIds, endTime \in NewEndTimes : CreateSchedule(h, endTime)
    \/ \E h \in HandlerIds, scheduleId \in 1..MaxScheduleId, endTime \in UpdatedEndTimes :
           UpdateSchedule(h, scheduleId, endTime)
    \/ \E scheduleId \in 1..MaxScheduleId, failed \in BOOLEAN :
           DeleteSchedule(scheduleId, failed)
    \/ \E h \in HandlerIds : Saved(h)
    \/ \E h \in HandlerIds : ScheduleMailed(h)
    \/ \E h \in HandlerIds : SaveFailed(h)
    \/ AccountDeleted

-----------------------------------------------------------------------------
(* The stop route at the limits of its validation *)

\* the lengths around the two limits of the validation
BoundaryDurations ==
    { MinDurationMs - 1, MinDurationMs, MinDurationMs + 1,
      MaxDurationMs - 1, MaxDurationMs, MaxDurationMs + 1 }

\* the start times a client sends: those lengths before t, or a step ago
BoundaryStartTimes(t) ==
    { DateOf(t - d) : d \in BoundaryDurations \cup {ClockStep} }

\* every stop request is answered before the next one arrives
BoundaryNext ==
    \/ Tick
    \/ /\ InFlight = {}
       /\ \E h \in HandlerIds, startTime \in BoundaryStartTimes(now) : StopSession(h, startTime)
    \/ \E h \in HandlerIds, scheduleId \in ScheduleIds : StopLoaded(h, scheduleId)
    \/ \E h \in HandlerIds : Saved(h)
    \/ \E h \in HandlerIds : SaveFailed(h)

-----------------------------------------------------------------------------
(* The ledger over several days: requests made one step after midnight *)

\* the sessions addStudySession is called with at t: one step long, started
\* one step before t today or on one of the MaxAge days before
DatedSessions(t) ==
    { [ isObject  |-> TRUE,
        startTime |-> DateOf(t - k * DayMs - ClockStep),
        endTime   |-> DateOf(t - k * DayMs),
        duration  |-> NumberOf(ClockStep) ] : k \in 0..MaxAge }

CalendarInit ==
    /\ now = ClockStep
    /\ user = NewUser
    /\ nextId = 1
    /\ nextScheduleId = 1
    /\ resp = NoCall
    /\ fired = [ type \in SeqToSet(AchievementTypes) |-> 0 ]
    /\ handlers = [h \in HandlerIds |-> NoHandler]
    /\ races = 0

\* a day passes, whether or not a request is suspended at an await
NextDay ==
    /\ now < MaxDays * DayMs
    /\ now' = now + DayMs
    /\ UNCHANGED <<user, nextId, nextScheduleId, resp, fired, handlers, races>>
    /\ UNCHANGED <<presenceVars, requests, raceVars, authVars>>

\* recordings only: the history grows day after day
CalendarNext ==
    \/ NextDay
    \/ \E session \in DatedSessions(now) : RecordSession(session)



-----------------------------------------------------------------------------
(* The presence relay: io.on('connection') and the handlers it installs *)

Users == {"ann", "bob", "cat"}
SocketIds == 1..MaxSockets
Subjects == {"", "Math"}

\* the friends arrays the friend routes leave, each in the order of its
\* $push updates: no friendship, a chain, a triangle, and the pair two
\* add-friend requests served together leave, each id pushed twice
FriendGraphs ==
    { [u \in Users |-> <<>>],
      [u \in Users |-> IF u = "bob" THEN <<"cat", "ann">> ELSE <<"bob">>],
      [u \in Users |-> CASE u = "ann" -> <<"bob", "cat">>
                          [] u = "bob" -> <<"cat", "ann">>
                          [] u = "cat" -> <<"ann", "bob">>],
      [u \in Users |-> CASE u = "ann" -> <<"bob", "bob">>
                          [] u = "bob" -> <<"ann", "ann">>
                          [] u = "cat" -> <<>>] }

NoStudySession == [active |-> FALSE, startTime |-> 0, subject |-> ""]

\* a key the Map does not hold
NoEntry == [present |-> FALSE, socketId |-> 0, studySession |-> NoStudySession,
            lastSeen |-> 0, friends |-> <<>>]

\* a connection the server has not seen yet
FreeSocket == [userId |-> "", phase |-> "free", connected |-> FALSE,
               friendIds |-> <<>>, rooms |-> {}, offlineSent |-> FALSE]

\* nothing published; duration is the duration field of the payload, 0 for
\* an event that carries none
NoEmit == [event |-> "none", about |-> "", duration |-> 0,
           copies |-> [s \in SocketIds |-> 0]]

\* no online_friends message
NoReply == [sent |-> FALSE, ids |-> <<>>]

\* Array.from(activeUsers.keys())
ActiveUserIds(registry) == { u \in Users : registry[u].present }

\* friendIds.forEach(friendId => io.to(`user_${friendId}`).emit(event, ...)):
\* every connected socket gets one copy for each element of the array
\* whose room it has joined
EmitToFriends(event, about, duration, friendIds, socks) ==
    [ event    |-> event,
      about    |-> about,
      duration |-> duration,
      copies   |-> [ s \in SocketIds |->
                       IF socks[s].connected
                       THEN Len(SelectSeq(friendIds, LAMBDA id : id \in socks[s].rooms))
                       ELSE 0 ] ]

\* array.filter(id => activeUserIds.includes(id))
OnlineAmong(ids, registry) == SelectSeq(ids, LAMBDA id : id \in ActiveUserIds(registry))

\* nothing published yet
NoOrder == [conn |-> [s \in SocketIds |-> "none"], study |-> [u \in Users |-> "idle"]]

\* the events one connection has published: none yet, friend_online first
\* ("open"), friend_offline last ("closed"), "bad" once out of that order
ConnectionOrder(was, event) ==
    IF was = "bad" THEN "bad"
    ELSE IF event = "friend_online" THEN (IF was = "none" THEN "open" ELSE "bad")
    ELSE IF event = "friend_offline" THEN (IF was = "open" THEN "closed" ELSE "bad")
    ELSE (IF was = "open" THEN "open" ELSE "bad")

\* the study events published about one user: "bad" once a
\* friend_stopped_studying came with no friend_started_studying before it
StudyOrder(was, event) ==
    IF was = "bad" THEN "bad"
    ELSE IF event = "friend_started_studying" THEN "studying"
    ELSE IF event = "friend_stopped_studying"
    THEN (IF was = "studying" THEN "idle" ELSE "bad")
    ELSE was

\* the order after connection s has published emit
Observe(o, s, emit) ==
    IF emit.event = "none"
    THEN o
    ELSE [ conn  |-> [o.conn EXCEPT ![s] = ConnectionOrder(@, emit.event)],
           study |-> [o.study EXCEPT ![emit.about] = StudyOrder(@, emit.event)] ]

\* no connection has been opened yet
NoConnection ==
    /\ sockets = [s \in SocketIds |-> FreeSocket]
    /\ activeUsers = [u \in Users |-> NoEntry]
    /\ lastEmit = NoEmit
    /\ reply = NoReply
    /\ order = NoOrder

PresenceInit ==
    /\ friendsOf \in FriendGraphs
    /\ NoConnection

\* a client opens a connection as u: the connection handler runs up to
\* await User.findById(...)
Connect(s, u) ==
    /\ sockets[s].phase = "free"
    /\ \A r \in SocketIds : r < s => sockets[r].phase # "free"
    /\ sockets' = [sockets EXCEPT ![s] = [FreeSocket EXCEPT !.userId = u,
                                                            !.phase = "loading",
                                                            !.connected = TRUE]]
    /\ lastEmit' = NoEmit
    /\ reply' = NoReply
    /\ order' = Observe(order, s, lastEmit')
    /\ UNCHANGED <<friendsOf, activeUsers>>
    /\ UNCHANGED <<ledgerVars, requests, raceVars, authVars>>

\* the mutant of LoadFailed: the user is registered before the connection is
\* terminated
LoadFailedRegistering(s) ==
    /\ sockets[s].phase = "loading"
    /\ sockets' = [sockets EXCEPT ![s].phase = "rejected", ![s].connected = FALSE]
    /\ activeUsers' = [activeUsers EXCEPT ![sockets[s].userId].present = TRUE,
                                          ![sockets[s].userId].socketId = s]
    /\ lastEmit' = NoEmit
    /\ reply' = NoReply
    /\ UNCHANGED <<friendsOf, order>>
    /\ UNCHANGED <<ledgerVars, requests, raceVars, authVars>>

\* the lookup rejects or finds no user: socket.disconnect(), nothing else
LoadFailed(s) ==
    /\ sockets[s].phase = "loading"
    /\ sockets' = [sockets EXCEPT ![s].phase = "rejected", ![s].connected = FALSE]
    /\ lastEmit' = NoEmit
    /\ reply' = NoReply
    /\ order' = Observe(order, s, lastEmit')
    /\ UNCHANGED <<friendsOf, activeUsers>>
    /\ UNCHANGED <<ledgerVars, requests, raceVars, authVars>>

\* the mutant of Register: an entry the user already has is kept
RegisterIfAbsent(registry, s, u, friends, t) ==
    IF registry[u].present
    THEN registry
    ELSE [registry EXCEPT ![u] = [present |-> TRUE, socketId |-> s,
                                  studySession |-> NoStudySession,
                                  lastSeen |-> t, friends |-> friends]]

\* the registry after activeUsers.set(socket.userId, {...})
Register(registry, s, u, friends, t) ==
    [registry EXCEPT ![u] = [present |-> TRUE, socketId |-> s,
                             studySession |-> NoStudySession,
                             lastSeen |-> t, friends |-> friends]]

\* the rooms the socket is in after the joins; a closed socket is in none
JoinedRooms(u, friendIds, connected) ==
    IF connected THEN {u} \cup SeqToSet(friendIds) ELSE {}

\* the lookup resolves: the rest of the connection handler runs, whether or
\* not the socket is still open
Loaded(s) ==
    LET u == sockets[s].userId
        friendIds == friendsOf[u]
        joined == [sockets EXCEPT ![s].phase = "ready",
                                  ![s].friendIds = friendIds,
                                  ![s].rooms = JoinedRooms(u, friendIds, sockets[s].connected)]
        registered == Register(activeUsers, s, u, friendIds, now)
    IN  /\ sockets[s].phase = "loading"
        /\ activeUsers' = registered
        /\ sockets' = joined
        /\ lastEmit' = EmitToFriends("friend_online", u, 0, friendIds, joined)
        /\ reply' = IF sockets[s].connected
                    THEN [sent |-> TRUE, ids |-> OnlineAmong(friendIds, registered)]
                    ELSE NoReply
        /\ order' = Observe(order, s, lastEmit')
        /\ UNCHANGED friendsOf
        /\ UNCHANGED <<ledgerVars, requests, raceVars, authVars>>

\* socket.on('start_study')
StartStudy(s, subject) ==
    LET u == sockets[s].userId
    IN  /\ sockets[s].phase = "ready"
        /\ sockets[s].connected
        /\ IF activeUsers[u].present
           THEN /\ activeUsers' =
                       [activeUsers EXCEPT ![u].studySession =
                           [active |-> TRUE, startTime |-> now,
                            subject |-> IF subject = "" THEN "General Study" ELSE subject]]
                /\ lastEmit' = EmitToFriends("friend_started_studying", u, 0,
                                             sockets[s].friendIds, sockets)
           ELSE /\ lastEmit' = NoEmit
                /\ UNCHANGED activeUsers
        /\ reply' = NoReply
        /\ order' = Observe(order, s, lastEmit')
        /\ UNCHANGED <<friendsOf, sockets>>
        /\ UNCHANGED <<ledgerVars, requests, raceVars, authVars>>

\* the mutant of StopStudyHandler: the marker is not looked at
StopStudyUnguarded(registry, u, friendIds, socks, t) ==
    [ registry |-> [registry EXCEPT ![u].studySession = NoStudySession],
      emit     |-> EmitToFriends("friend_stopped_studying", u,
                                 t - registry[u].studySession.startTime, friendIds, socks) ]

\* the mutant of StopStudyHandler: the duration is the time of the stop
StopStudyClockAsDuration(registry, u, friendIds, socks, t) ==
    IF registry[u].present /\ registry[u].studySession.active
    THEN [ registry |-> [registry EXCEPT ![u].studySession = NoStudySession],
           emit     |-> EmitToFriends("friend_stopped_studying", u, t, friendIds, socks) ]
    ELSE [ registry |-> registry, emit |-> NoEmit ]

\* the stop_study handler of a connection of u whose friends are friendIds:
\* the registry it leaves and what it publishes
StopStudyHandler(registry, u, friendIds, socks, t) ==
    IF registry[u].present /\ registry[u].studySession.active
    THEN [ registry |-> [registry EXCEPT ![u].studySession = NoStudySession],
           emit     |-> EmitToFriends("friend_stopped_studying", u,
                                      t - registry[u].studySession.startTime,
                                      friendIds, socks) ]
    ELSE [ registry |-> registry, emit |-> NoEmit ]

\* socket.on('stop_study')
StopStudy(s) ==
    LET u == sockets[s].userId
        h == StopStudyHandler(activeUsers, u, sockets[s].friendIds, sockets, now)
    IN  /\ sockets[s].phase = "ready"
        /\ sockets[s].connected
        /\ activeUsers' = h.registry
        /\ lastEmit' = h.emit
        /\ reply' = NoReply
        /\ order' = Observe(order, s, lastEmit')
        /\ UNCHANGED <<friendsOf, sockets>>
        /\ UNCHANGED <<ledgerVars, requests, raceVars, authVars>>

\* the ids get_online_friends filters: the list sent, or the friends of the
\* connection when none or an empty one is sent
IdsToCheck(friendIdsArray, friendIds) ==
    IF Len(friendIdsArray) > 0 THEN friendIdsArray ELSE friendIds

\* the mutant of OnlineFriendsHandler: the fallback is taken for every list
OnlineFriendsOfFriendsOnly(friendIdsArray, friendIds, registry) ==
    [ ids      |-> OnlineAmong(friendIds, registry),
      registry |-> registry ]

\* the get_online_friends handler of a connection whose friends are
\* friendIds: the list it sends back and the registry it leaves
OnlineFriendsHandler(friendIdsArray, friendIds, registry) ==
    [ ids      |-> OnlineAmong(IdsToCheck(friendIdsArray, friendIds), registry),
      registry |-> registry ]

\* socket.on('get_online_friends')
GetOnlineFriends(s, friendIdsArray) ==
    LET h == OnlineFriendsHandler(friendIdsArray, sockets[s].friendIds, activeUsers)
    IN  /\ sockets[s].phase = "ready"
        /\ sockets[s].connected
        /\ activeUsers' = h.registry
        /\ reply' = [sent |-> TRUE, ids |-> h.ids]
        /\ lastEmit' = NoEmit
        /\ order' = Observe(order, s, lastEmit')
        /\ UNCHANGED <<friendsOf, sockets>>
        /\ UNCHANGED <<ledgerVars, requests, raceVars, authVars>>

\* the connection closes while the lookup is pending: no disconnect handler
\* is installed yet
CloseWhileLoading(s) ==
    /\ sockets[s].phase = "loading"
    /\ sockets[s].connected
    /\ sockets' = [sockets EXCEPT ![s].connected = FALSE]
    /\ lastEmit' = NoEmit
    /\ reply' = NoReply
    /\ order' = Observe(order, s, lastEmit')
    /\ UNCHANGED <<friendsOf, activeUsers>>
    /\ UNCHANGED <<ledgerVars, requests, raceVars, authVars>>

\* the registry after activeUsers.delete(socket.userId)
Unregister(registry, s, u) == [registry EXCEPT ![u] = NoEntry]

\* socket.on('disconnect'): the socket has left its rooms when the handler runs
Disconnect(s) ==
    LET u == sockets[s].userId
        left == [sockets EXCEPT ![s].connected = FALSE, ![s].rooms = {},
                                ![s].offlineSent = TRUE]
    IN  /\ sockets[s].phase = "ready"
        /\ sockets[s].connected
        /\ sockets' = left
        /\ lastEmit' = EmitToFriends("friend_offline", u, 0, sockets[s].friendIds, left)
        /\ activeUsers' = Unregister(activeUsers, s, u)
        /\ reply' = NoReply
        /\ order' = Observe(order, s, lastEmit')
        /\ UNCHANGED friendsOf
        /\ UNCHANGED <<ledgerVars, requests, raceVars, authVars>>

\* the candidate lists of at most n ids, the first of them any user and the
\* others the same id again or another one
ListsUpTo(n) == UNION { [1..k -> Users] : k \in 0..n }

\* the candidate lists the handler is evaluated on
CandidateLists == ListsUpTo(MaxCandidates)

\* the candidate lists the clients send in a run
SentLists == ListsUpTo(MaxSent)

\* the relay without the get_online_friends query
RelayNext ==
    \/ \E s \in SocketIds, u \in Users : Connect(s, u)
    \/ \E s \in SocketIds : LoadFailed(s)
    \/ \E s \in SocketIds : Loaded(s)
    \/ \E s \in SocketIds, subject \in Subjects : StartStudy(s, subject)
    \/ \E s \in SocketIds : StopStudy(s)
    \/ \E s \in SocketIds : CloseWhileLoading(s)
    \/ \E s \in SocketIds : Disconnect(s)

\* the connections that come and go and the get_online_friends query, with
\* nobody studying
QueryNext ==
    \/ \E s \in SocketIds, u \in Users : Connect(s, u)
    \/ \E s \in SocketIds : LoadFailed(s)
    \/ \E s \in SocketIds : Loaded(s)
    \/ \E s \in SocketIds, ids \in SentLists : GetOnlineFriends(s, ids)
    \/ \E s \in SocketIds : CloseWhileLoading(s)
    \/ \E s \in SocketIds : Disconnect(s)

PresenceNext ==
    \/ \E s \in SocketIds, u \in Users : Connect(s, u)
    \/ \E s \in SocketIds : LoadFailed(s)
    \/ \E s \in SocketIds : Loaded(s)
    \/ \E s \in SocketIds, subject \in Subjects : StartStudy(s, subject)
    \/ \E s \in SocketIds : StopStudy(s)
    \/ \E s \in SocketIds, ids \in SentLists : GetOnlineFriends(s, ids)
    \/ \E s \in SocketIds : CloseWhileLoading(s)
    \/ \E s \in SocketIds : Disconnect(s)

\* the start times the clients send on the walk: one step and one day
\* before t, that is today and yesterday
WalkStartTimes(t) == { DateOf(t - ClockStep), DateOf(t - DayMs) }

\* the stop route over the days of the calendar walk
StreakNext ==
    \/ NextDay
    \/ \E h \in HandlerIds, startTime \in WalkStartTimes(now) : StopSession(h, startTime)
    \/ \E h \in HandlerIds, scheduleId \in ScheduleIds : StopLoaded(h, scheduleId)
    \/ \E h \in HandlerIds : Saved(h)

-----------------------------------------------------------------------------
(* The ledger of long-standing users: the walk starts on WalkStartDay, one
   step after midnight, with a user who has recorded one session on each of
   the k days before *)

\* the numbers of days recorded before the walk: one short of each
\* threshold of the rule table
VeteranDays == {0, 2, 4, 6, 24, 29}

\* a session of the length of the default daily goal that started at the
\* midnight before t
VeteranSession(t) ==
    [ isObject  |-> TRUE,
      startTime |-> DateOf(Midnight(t)),
      endTime   |-> DateOf(Midnight(t) + DefaultDailyGoal),
      duration  |-> NumberOf(DefaultDailyGoal) ]

\* the document after one more such session has been recorded on each of
\* the k days before WalkStartDay
RECURSIVE Seasoned(_, _, _)
Seasoned(u, id, k) ==
    IF k = 0
    THEN u
    ELSE LET t == (WalkStartDay - k) * DayMs + ClockStep
             saved == AddStudySession(u, VeteranSession(t), t, id).user
         IN  IF Len(saved.studySessions) = id
             THEN Seasoned(saved, id + 1, k - 1)
             ELSE u

Veteran(k) == Seasoned(NewUser, 1, k)

\* the sessions recorded before the walk, told by their length
VeteranCount(u) ==
    Cardinality({ i \in 1..Len(u.studySessions) :
                    u.studySessions[i].duration = DefaultDailyGoal })

AwardsInit ==
    \E k \in VeteranDays :
        /\ now = WalkStartDay * DayMs + ClockStep
        /\ user = Veteran(k)
        /\ nextId = k + 1
        /\ nextScheduleId = 1
        /\ resp = NoCall
        /\ fired = [ type \in SeqToSet(AchievementTypes) |-> 0 ]
        /\ handlers = [h \in HandlerIds |-> NoHandler]
        /\ races = 0

\* a day passes, whether or not a request is suspended at an await
NextWalkDay ==
    /\ now < (WalkStartDay + MaxDays) * DayMs
    /\ now' = now + DayMs
    /\ UNCHANGED <<user, nextId, nextScheduleId, resp, fired, handlers, races>>
    /\ UNCHANGED <<presenceVars, requests, raceVars, authVars>>

\* the sessions of the walk: started one step before t, today or MaxAge
\* days before
WalkSessions(t) ==
    { session \in DatedSessions(t) :
        session.startTime.v \in {t - ClockStep, t - MaxAge * DayMs - ClockStep} }

\* at most MaxSessions sessions are recorded during the walk, each while no
\* request is in flight
RecordOnWalk(session) ==
    /\ InFlight = {}
    /\ RecordUpTo(session, VeteranCount(user) + MaxSessions)

\* on the walk a request to PUT /goal is answered before the next call is
\* made, and its save is accepted
GoalOnWalk(dailyGoal) ==
    /\ InFlight = {}
    /\ \E h \in HandlerIds : SetGoal(h, dailyGoal)

AwardsNext ==
    \/ NextWalkDay
    \/ \E session \in WalkSessions(now) : RecordOnWalk(session)
    \/ \E dailyGoal \in GoalInputs : GoalOnWalk(dailyGoal)
    \/ \E h \in HandlerIds : Saved(h)

-----------------------------------------------------------------------------
(* The friend routes: router.post('/add-friend') and
   router.delete('/remove-friend/:friendId'). Each update is a step of its
   own; $push appends an id to the friends array and $pull removes every
   occurrence of one *)

RequestIds == 1..MaxRequests

\* a request the server has not received yet
NoRequest == [kind |-> "none", from |-> "", to |-> "", pc |-> "idle", status |-> 0]

FriendsInit == requests = [r \in RequestIds |-> NoRequest]

\* the invite codes a client sends: the code of a user, or one nobody has
InviteCodes == Users \cup {""}

\* no request is between two of its awaits
Settled == \A r \in RequestIds : requests[r].pc \in {"idle", "done"}

\* the response of a request that ends with status
Answered(kind, a, b, status) ==
    [kind |-> kind, from |-> a, to |-> b, pc |-> "done", status |-> status]

\* POST /add-friend by a with the invite code of b, up to the first update:
\* findOne, the test against oneself, findById and the includes test
AddFriendCheck(r, a, code) ==
    /\ requests[r].pc = "idle"
    /\ \A q \in RequestIds : q < r => requests[q].pc # "idle"
    /\ requests' = [requests EXCEPT ![r] =
           IF code \notin Users THEN Answered("add", a, code, 404)
           ELSE IF code = a THEN Answered("add", a, code, 400)
           ELSE IF code \in SeqToSet(friendsOf[a]) THEN Answered("add", a, code, 400)
           ELSE [kind |-> "add", from |-> a, to |-> code, pc |-> "pushOwn", status |-> 0]]
    /\ UNCHANGED <<friendsOf, sockets, activeUsers, lastEmit, reply, order>>
    /\ UNCHANGED <<ledgerVars, raceVars, authVars>>

\* findByIdAndUpdate(currentUserId, { $push: { friends: friendUser._id } })
AddFriendPushOwn(r) ==
    /\ requests[r].pc = "pushOwn"
    /\ friendsOf' = [friendsOf EXCEPT ![requests[r].from] = Append(@, requests[r].to)]
    /\ requests' = [requests EXCEPT ![r].pc = "pushOther"]
    /\ UNCHANGED <<sockets, activeUsers, lastEmit, reply, order>>
    /\ UNCHANGED <<ledgerVars, raceVars, authVars>>

\* findByIdAndUpdate(friendUser._id, { $push: { friends: currentUserId } })
\* and the response
AddFriendPushOther(r) ==
    /\ requests[r].pc = "pushOther"
    /\ friendsOf' = [friendsOf EXCEPT ![requests[r].to] = Append(@, requests[r].from)]
    /\ requests' = [requests EXCEPT ![r].pc = "done", ![r].status = 200]
    /\ UNCHANGED <<sockets, activeUsers, lastEmit, reply, order>>
    /\ UNCHANGED <<ledgerVars, raceVars, authVars>>

\* DELETE /remove-friend/b by a, up to the end of the first update:
\* findByIdAndUpdate(currentUserId, { $pull: { friends: friendId } })
RemoveFriendPullOwn(r, a, b) ==
    /\ requests[r].pc = "idle"
    /\ \A q \in RequestIds : q < r => requests[q].pc # "idle"
    /\ friendsOf' = [friendsOf EXCEPT ![a] = SelectSeq(@, LAMBDA id : id # b)]
    /\ requests' = [requests EXCEPT ![r] =
           [kind |-> "remove", from |-> a, to |-> b, pc |-> "pullOther", status |-> 0]]
    /\ UNCHANGED <<sockets, activeUsers, lastEmit, reply, order>>
    /\ UNCHANGED <<ledgerVars, raceVars, authVars>>

\* findByIdAndUpdate(friendId, { $pull: { friends: currentUserId } }) and
\* the response
RemoveFriendPullOther(r) ==
    /\ requests[r].pc = "pullOther"
    /\ friendsOf' = [friendsOf EXCEPT ![requests[r].to] =
                                   SelectSeq(@, LAMBDA id : id # requests[r].from)]
    /\ requests' = [requests EXCEPT ![r].pc = "done", ![r].status = 200]
    /\ UNCHANGED <<sockets, activeUsers, lastEmit, reply, order>>
    /\ UNCHANGED <<ledgerVars, raceVars, authVars>>

FriendsNext ==
    \/ \E r \in RequestIds, a \in Users, code \in InviteCodes : AddFriendCheck(r, a, code)
    \/ \E r \in RequestIds : AddFriendPushOwn(r)
    \/ \E r \in RequestIds : AddFriendPushOther(r)
    \/ \E r \in RequestIds, a \in Users, b \in Users : RemoveFriendPullOwn(r, a, b)
    \/ \E r \in RequestIds : RemoveFriendPullOther(r)

\* the presence relay with the clock running: the connections of the users
\* who have a friend, start_study with no subject given, and every handler
\* but the get_online_friends query
StudyNext ==
    \/ Tick
    \/ \E s \in SocketIds, u \in { v \in Users : friendsOf[v] # <<>> } : Connect(s, u)
    \/ \E s \in SocketIds : LoadFailed(s)
    \/ \E s \in SocketIds : Loaded(s)
    \/ \E s \in SocketIds : StartStudy(s, "")
    \/ \E s \in SocketIds : StopStudy(s)
    \/ \E s \in SocketIds : CloseWhileLoading(s)
    \/ \E s \in SocketIds : Disconnect(s)

-----------------------------------------------------------------------------
(* Stop requests that race: router.post('/session/stop') suspends at
   await User.findById and at await user.save(), and the requests of one
   user work on copies of one stored document, which the schedule routes
   change beside them. The database is up: findById finds the user, and a
   save is rejected only for the version of the stored document *)

StopIds == 1..MaxStops

\* the users whose requests race
Racers == {"ann", "bob"}

\* a request not yet received
NoStop ==
    [ owner |-> "", pc |-> "idle", startTime |-> Undefined, endTime |-> 0,
      loaded |-> NewUser, doc |-> NewUser, before |-> NewUser,
      marked |-> FALSE, overtaken |-> FALSE,
      overtook |-> {}, latest |-> FALSE, status |-> 0 ]

PlanIds == 1..MaxPlans

\* a slot no request to the schedule routes occupies
NoPlan == [owner |-> "", route |-> "none", pc |-> "idle", loaded |-> NewUser, doc |-> NewUser]

RaceInit ==
    /\ stored = [u \in Users |-> NewUser]
    /\ stops = [r \in StopIds |-> NoStop]
    /\ plans = [p \in PlanIds |-> NoPlan]

\* the start time the racing clients send: one step before t
RaceStartTimes(t) == { DateOf(t - ClockStep) }

\* the requests of u that hold a copy of the document they have not saved
Saving(u) == { r \in StopIds : stops[r].owner = u /\ stops[r].pc = "saving" }

\* the request arrives and passes the validation: endTime is read from the
\* clock and findById is awaited
ReceiveStop(r, u, startTime) ==
    /\ stops[r].pc = "idle"
    /\ \A q \in 1..(r - 1) : stops[q].pc # "idle"
    /\ StopValidation(startTime, now) = 0
    /\ stops' = [stops EXCEPT ![r] = [NoStop EXCEPT !.owner = u, !.pc = "loading",
                                                     !.startTime = startTime,
                                                     !.endTime = now]]
    /\ UNCHANGED <<stored, plans>>
    /\ UNCHANGED <<ledgerVars, presenceVars, requests, authVars>>

\* findById of a request whose body carries scheduleId resolves with a copy
\* of the stored document, and the handler runs addStudySession on it and
\* marks the progress of the schedule, up to await user.save(); marked
\* tells whether the id names a schedule of the user
LoadStop(r, scheduleId) ==
    LET q == stops[r]
        loaded == stored[q.owner]
        session == SessionData(q.startTime, q.endTime)
        added == AddStudySession(loaded, session, now, r)
    IN  /\ q.pc = "loading"
        /\ stops' = [stops EXCEPT ![r] =
                        [q EXCEPT !.pc = IF added.threw THEN "done" ELSE "saving",
                                  !.status = IF added.threw THEN 500 ELSE 0,
                                  !.loaded = loaded,
                                  !.doc = IF added.threw THEN loaded
                                          ELSE MarkProgress(added.user, scheduleId,
                                                            session, now),
                                  !.marked = scheduleId # 0
                                      /\ ScheduleIndex(loaded.studySchedules, scheduleId) # 0]]
        /\ UNCHANGED <<stored, plans>>
        /\ UNCHANGED <<ledgerVars, presenceVars, requests, authVars>>

\* save resolves and the request is answered: 200 when the changes were
\* written, 500 when the save was rejected for the version of the stored
\* document. Of the answered requests of a user only the one that was
\* answered last is remembered with its documents, and a request that holds
\* a copy while another one pushes to an array of the document is overtaken
SaveStop(r) ==
    LET q == stops[r]
        rejected == SaveRejected(stored[q.owner], q.loaded, q.doc)
    IN  /\ q.pc = "saving"
        /\ stored' = IF rejected
                      THEN stored
                      ELSE [stored EXCEPT ![q.owner] = SaveDelta(@, q.loaded, q.doc)]
        /\ stops' = [ p \in StopIds |->
                        IF p = r
                        THEN [q EXCEPT !.pc = "done",
                                       !.status = IF rejected THEN 500 ELSE 200,
                                       !.startTime = Undefined, !.endTime = 0,
                                       !.before = stored[q.owner],
                                       !.overtook = Saving(q.owner) \ {r},
                                       !.latest = TRUE]
                        ELSE IF stops[p].owner = q.owner /\ stops[p].pc = "done"
                        THEN [stops[p] EXCEPT !.latest = FALSE, !.loaded = NewUser,
                                              !.doc = NewUser, !.before = NewUser]
                        ELSE IF stops[p].owner = q.owner /\ stops[p].pc = "saving"
                        THEN [stops[p] EXCEPT !.overtaken = @ \/ ~rejected]
                        ELSE stops[p] ]
        /\ UNCHANGED plans
        /\ UNCHANGED <<ledgerVars, presenceVars, requests, authVars>>

\* the slot a request to the schedule routes is given: the lowest free one
FreePlan(p) ==
    /\ plans[p].pc = "idle"
    /\ \A o \in 1..(p - 1) : plans[o].pc # "idle"

\* POST /schedule of u with body.endTime = endTime arrives and findById
\* resolves: the schedule is pushed to the copy and user.save() is awaited
ReceiveSchedule(p, u, endTime) ==
    /\ FreePlan(p)
    /\ nextScheduleId <= MaxScheduleId
    /\ plans' = [plans EXCEPT ![p] =
           [ owner |-> u, route |-> "schedule", pc |-> "saving", loaded |-> stored[u],
             doc |-> AddSchedule(stored[u], nextScheduleId, 0, endTime) ]]
    /\ nextScheduleId' = nextScheduleId + 1
    /\ UNCHANGED <<stored, stops>>
    /\ UNCHANGED <<now, user, nextId, resp, fired, handlers, races>>
    /\ UNCHANGED <<presenceVars, requests, authVars>>

\* PUT /schedule/:scheduleId of u with body.endTime = endTime arrives and
\* findById resolves: endTime is set on the schedule of the copy and
\* user.save() is awaited; the request that names no schedule of the copy
\* is answered 404 and leaves nothing behind
ReceiveUpdate(p, u, scheduleId, endTime) ==
    LET r == EditSchedule(stored[u], scheduleId, endTime)
    IN  /\ FreePlan(p)
        /\ r.status = 0
        /\ plans' = [plans EXCEPT ![p] =
               [ owner |-> u, route |-> "reschedule", pc |-> "saving",
                 loaded |-> stored[u], doc |-> r.user ]]
        /\ UNCHANGED <<stored, stops>>
        /\ UNCHANGED <<ledgerVars, presenceVars, requests, authVars>>

\* user.save() of a request to the schedule routes resolves: the changes
\* are written unless the save is rejected for the version; the save of
\* POST /schedule pushes to studySchedules, so it overtakes the stop
\* requests of the user that hold a copy, and sendSessionNotification is
\* awaited; PUT /schedule/:scheduleId is answered
SavePlan(p) ==
    LET q == plans[p]
        rejected == SaveRejected(stored[q.owner], q.loaded, q.doc)
    IN  /\ q.pc = "saving"
        /\ stored' = IF rejected
                      THEN stored
                      ELSE [stored EXCEPT ![q.owner] = SaveDelta(@, q.loaded, q.doc)]
        /\ plans' = [plans EXCEPT ![p] =
               IF q.route = "schedule" /\ ~rejected
               THEN [NoPlan EXCEPT !.route = q.route, !.pc = "mailing"]
               ELSE NoPlan]
        /\ stops' = [ r \in StopIds |->
                        IF /\ stops[r].owner = q.owner
                           /\ stops[r].pc = "saving"
                           /\ q.route = "schedule"
                        THEN [stops[r] EXCEPT !.overtaken = TRUE]
                        ELSE stops[r] ]
        /\ UNCHANGED <<ledgerVars, presenceVars, requests, authVars>>

\* sendSessionNotification of POST /schedule resolves or rejects, and the
\* route answers 200
MailPlan(p) ==
    /\ plans[p].pc = "mailing"
    /\ plans' = [plans EXCEPT ![p] = NoPlan]
    /\ UNCHANGED <<stored, stops>>
    /\ UNCHANGED <<ledgerVars, presenceVars, requests, authVars>>

\* DELETE /schedule/:scheduleId of u: findByIdAndUpdate pulls the schedule
\* from the stored document in one update, and the route answers 200
DropSchedule(u, scheduleId) ==
    /\ stored' = [stored EXCEPT ![u] = PullSchedule(@, scheduleId)]
    /\ UNCHANGED <<stops, plans>>
    /\ UNCHANGED <<ledgerVars, presenceVars, requests, authVars>>

RaceNext ==
    \/ Tick
    \/ \E r \in StopIds, u \in Racers, startTime \in RaceStartTimes(now) :
           ReceiveStop(r, u, startTime)
    \/ \E r \in StopIds, scheduleId \in ScheduleIds : LoadStop(r, scheduleId)
    \/ \E r \in StopIds : SaveStop(r)
    \/ \E p \in PlanIds, u \in Racers, endTime \in NewEndTimes : ReceiveSchedule(p, u, endTime)
    \/ \E p \in PlanIds, u \in Racers, scheduleId \in 1..MaxScheduleId,
           endTime \in UpdatedEndTimes : ReceiveUpdate(p, u, scheduleId, endTime)
    \/ \E p \in PlanIds : SavePlan(p)
    \/ \E p \in PlanIds : MailPlan(p)
    \/ \E u \in Racers, scheduleId \in 1..MaxScheduleId : DropSchedule(u, scheduleId)

-----------------------------------------------------------------------------
(* The auth routes: router.post('/register'), '/verify-otp', '/resend-otp'
   and '/login' *)

\* the lifetime of a verification code
OtpLifetimeMs == 10 * 60 * 1000

\* the person who registers
Members == {"ann"}

\* the codes generateOTP draws
Otps == {"123456", "654321"}

\* null in emailVerificationOTP, and the absent body field
NoOtp == ""

Passwords == {"hunter2", "letmein"}

\* no document: nobody is registered under the email, and what findById
\* and findOne give for null
NoAccount ==
    [ exists |-> FALSE, id |-> 0, email |-> "", password |-> "",
      isEmailVerified |-> FALSE, emailVerificationOTP |-> NoOtp, otpExpiresAt |-> 0 ]

\* no auth route has answered yet
NoAnswer ==
    [ route |-> "none", status |-> 0, token |-> "", userId |-> "", secret |-> "",
      was |-> NoAccount, at |-> 0 ]

AuthIds == 1..MaxAuthCalls

\* a handler slot no request occupies
NoAuthCall ==
    [ route |-> "none", pc |-> "idle", member |-> "", secret |-> "",
      loaded |-> NoAccount, doc |-> NoAccount, at |-> 0 ]

AuthInit ==
    /\ accounts = [u \in Members |-> NoAccount]
    /\ issued = NoAnswer
    /\ authCalls = [a \in AuthIds |-> NoAuthCall]
    /\ nextUserId = 1

\* the slot a request that arrives is given: the lowest one that is free
FreeAuthCall(a) ==
    /\ authCalls[a].pc = "idle"
    /\ \A b \in 1..(a - 1) : authCalls[b].pc # "idle"

\* User.findById(userId): the stored document with that _id, or null
FindById(userId) ==
    IF \E u \in Members : accounts[u].exists /\ accounts[u].id = userId
    THEN accounts[CHOOSE u \in Members : accounts[u].exists /\ accounts[u].id = userId]
    ELSE NoAccount

\* what a route answers; of an answer that carries a token, secret is what
\* the request presented, was the account the route had loaded and t the
\* time it was loaded
Answer(route, status, token, u, secret, was, t) ==
    IF token = ""
    THEN [NoAnswer EXCEPT !.route = route, !.status = status, !.userId = u]
    ELSE [NoAnswer EXCEPT !.route = route, !.status = status, !.token = token,
                          !.userId = u, !.secret = secret, !.was = was, !.at = t]

\* POST /register for the email u run without interruption, acct being the
\* document findOne gives: the user is created unverified with the _id id
\* and a fresh code, and deleted again when the email cannot be sent
RegisterRoute(acct, id, u, password, otp, emailSent, t) ==
    IF acct.exists
    THEN [account |-> acct, status |-> 400]
    ELSE IF ~emailSent
    THEN [account |-> NoAccount, status |-> 500]
    ELSE [account |-> [ exists |-> TRUE, id |-> id, email |-> u, password |-> password,
                        isEmailVerified |-> FALSE,
                        emailVerificationOTP |-> otp, otpExpiresAt |-> t + OtpLifetimeMs ],
          status |-> 201]

\* POST /resend-otp run without interruption, acct being the document
\* findById gives: the new code is saved before the email is sent, and
\* stays when the email cannot be sent
ResendOtpRoute(acct, otp, emailSent, t) ==
    IF ~acct.exists
    THEN [account |-> acct, status |-> 404]
    ELSE IF acct.isEmailVerified
    THEN [account |-> acct, status |-> 400]
    ELSE [account |-> [acct EXCEPT !.emailVerificationOTP = otp,
                                   !.otpExpiresAt = t + OtpLifetimeMs],
          status |-> IF emailSent THEN 200 ELSE 500]

\* POST /verify-otp run without interruption, acct being the document
\* findById gives: the account that is saved, the status and whether a token
\* is in the answer
VerifyOtpRoute(acct, otp, t) ==
    IF otp = NoOtp
    THEN [account |-> acct, status |-> 400, token |-> FALSE]
    ELSE IF ~acct.exists
    THEN [account |-> acct, status |-> 404, token |-> FALSE]
    ELSE IF acct.isEmailVerified
    THEN [account |-> acct, status |-> 200, token |-> TRUE]
    ELSE IF acct.emailVerificationOTP = NoOtp \/ acct.emailVerificationOTP # otp
    THEN [account |-> acct, status |-> 400, token |-> FALSE]
    ELSE IF acct.otpExpiresAt < t
    THEN [account |-> acct, status |-> 400, token |-> FALSE]
    ELSE [account |-> [acct EXCEPT !.isEmailVerified = TRUE,
                                   !.emailVerificationOTP = NoOtp,
                                   !.otpExpiresAt = 0],
          status |-> 200, token |-> TRUE]

\* POST /login run without interruption, acct being the document findOne
\* gives: the status and whether a token is in the answer
LoginRoute(acct, password) ==
    IF ~acct.exists
    THEN [status |-> 401, token |-> FALSE]
    ELSE IF acct.password # password
    THEN [status |-> 401, token |-> FALSE]
    ELSE IF ~acct.isEmailVerified
    THEN [status |-> 403, token |-> FALSE]
    ELSE [status |-> 200, token |-> TRUE]

\* user.save() of an account that was loaded as loaded and is now doc, on
\* the stored document db of the same _id: $set of the paths whose value was
\* changed
SaveAccount(db, loaded, doc) ==
    [db EXCEPT
        !.isEmailVerified      = IF doc.isEmailVerified # loaded.isEmailVerified
                                 THEN doc.isEmailVerified ELSE @,
        !.emailVerificationOTP = IF doc.emailVerificationOTP # loaded.emailVerificationOTP
                                 THEN doc.emailVerificationOTP ELSE @,
        !.otpExpiresAt         = IF doc.otpExpiresAt # loaded.otpExpiresAt
                                 THEN doc.otpExpiresAt ELSE @ ]

\* the register requests that wait for User.findOne({ friendInviteCode })
Checking == { a \in AuthIds : authCalls[a].pc = "checking" }

\* POST /register arrives and User.findOne({ $or }) resolves: 400 when the
\* email is taken, else the code and its expiry are drawn with the clock as
\* it is, and User.findOne({ friendInviteCode }) is awaited; the document
\* has no _id yet
RegisterUser(a, u, password, otp) ==
    LET r == RegisterRoute(accounts[u], 0, u, password, otp, TRUE, now)
    IN  /\ FreeAuthCall(a)
        /\ IF r.status = 400
           THEN /\ issued' = Answer("register", 400, "", u, password, accounts[u], now)
                /\ UNCHANGED authCalls
           ELSE /\ nextUserId + Cardinality(Checking) <= MaxUsers
                /\ authCalls' = [authCalls EXCEPT ![a] =
                       [NoAuthCall EXCEPT !.route = "register", !.pc = "checking",
                                          !.member = u, !.secret = password,
                                          !.doc = r.account, !.at = now]]
                /\ UNCHANGED issued
        /\ UNCHANGED <<accounts, nextUserId>>
        /\ UNCHANGED <<ledgerVars, presenceVars, requests, raceVars>>

\* User.findOne({ friendInviteCode }) resolves with null: new User(...) gives
\* the document its _id, with the code and the expiry drawn before, and
\* user.save() is awaited
RegisterChecked(a) ==
    LET q == authCalls[a]
    IN  /\ q.route = "register"
        /\ q.pc = "checking"
        /\ authCalls' = [authCalls EXCEPT ![a] =
               [q EXCEPT !.pc = "saving", !.doc = [q.doc EXCEPT !.id = nextUserId]]]
        /\ nextUserId' = nextUserId + 1
        /\ UNCHANGED <<accounts, issued>>
        /\ UNCHANGED <<ledgerVars, presenceVars, requests, raceVars>>

\* user.save() of the new user resolves: the account exists, unverified,
\* and sendOTPEmail is awaited; the unique index on email rejects the save
\* when another request has created the account meanwhile
RegisterSaved(a) ==
    LET q == authCalls[a]
    IN  /\ q.route = "register"
        /\ q.pc = "saving"
        /\ IF accounts[q.member].exists
           THEN /\ issued' = Answer("register", 500, "", q.member, q.secret,
                                    accounts[q.member], q.at)
                /\ authCalls' = [authCalls EXCEPT ![a] = NoAuthCall]
                /\ UNCHANGED accounts
           ELSE /\ accounts' = [accounts EXCEPT ![q.member] = q.doc]
                /\ authCalls' = [authCalls EXCEPT ![a].pc = "mailing"]
                /\ UNCHANGED issued
        /\ UNCHANGED nextUserId
        /\ UNCHANGED <<ledgerVars, presenceVars, requests, raceVars>>

\* sendOTPEmail resolves: 201 when the email was sent, else
\* User.findByIdAndDelete is awaited
RegisterMailed(a, emailSent) ==
    LET q == authCalls[a]
    IN  /\ q.route = "register"
        /\ q.pc = "mailing"
        /\ IF emailSent
           THEN /\ issued' = Answer("register", 201, "", q.member, q.secret, NoAccount, q.at)
                /\ authCalls' = [authCalls EXCEPT ![a] = NoAuthCall]
           ELSE /\ authCalls' = [authCalls EXCEPT ![a].pc = "deleting"]
                /\ UNCHANGED issued
        /\ UNCHANGED <<accounts, nextUserId>>
        /\ UNCHANGED <<ledgerVars, presenceVars, requests, raceVars>>

\* findByIdAndDelete(user._id) resolves: the document the request created is
\* gone, whatever has been done to it meanwhile
RegisterDeleted(a) ==
    LET q == authCalls[a]
    IN  /\ q.route = "register"
        /\ q.pc = "deleting"
        /\ accounts' = [ u \in Members |->
                           IF accounts[u].exists /\ accounts[u].id = q.doc.id
                           THEN NoAccount ELSE accounts[u] ]
        /\ issued' = Answer("register", 500, "", q.member, q.secret, NoAccount, q.at)
        /\ authCalls' = [authCalls EXCEPT ![a] = NoAuthCall]
        /\ UNCHANGED nextUserId
        /\ UNCHANGED <<ledgerVars, presenceVars, requests, raceVars>>

\* POST /resend-otp with body.userId = userId arrives and User.findById
\* resolves: 404 or 400, else the new code is set on the copy and
\* user.save() is awaited
ResendOtp(a, userId, otp) ==
    LET loaded == FindById(userId)
        r == ResendOtpRoute(loaded, otp, TRUE, now)
    IN  /\ FreeAuthCall(a)
        /\ IF r.status # 200
           THEN /\ issued' = Answer("resend-otp", r.status, "", loaded.email, "", loaded, now)
                /\ UNCHANGED authCalls
           ELSE /\ authCalls' = [authCalls EXCEPT ![a] =
                       [NoAuthCall EXCEPT !.route = "resend-otp", !.pc = "saving",
                                          !.member = loaded.email, !.loaded = loaded,
                                          !.doc = r.account, !.at = now]]
                /\ UNCHANGED issued
        /\ UNCHANGED <<accounts, nextUserId>>
        /\ UNCHANGED <<ledgerVars, presenceVars, requests, raceVars>>

\* user.save() resolves and sendOTPEmail is awaited; the save of a document
\* that is no longer in the collection rejects, and the route answers 500
ResendSaved(a) ==
    LET q == authCalls[a]
    IN  /\ q.route = "resend-otp"
        /\ q.pc = "saving"
        /\ IF ~FindById(q.loaded.id).exists
           THEN /\ issued' = Answer("resend-otp", 500, "", q.member, "", q.loaded, q.at)
                /\ authCalls' = [authCalls EXCEPT ![a] = NoAuthCall]
                /\ UNCHANGED accounts
           ELSE /\ accounts' = [accounts EXCEPT ![q.member] =
                                   SaveAccount(@, q.loaded, q.doc)]
                /\ authCalls' = [authCalls EXCEPT ![a].pc = "mailing"]
                /\ UNCHANGED issued
        /\ UNCHANGED nextUserId
        /\ UNCHANGED <<ledgerVars, presenceVars, requests, raceVars>>

\* sendOTPEmail resolves: 200 when the email was sent, 500 when it was not
ResendMailed(a, emailSent) ==
    LET q == authCalls[a]
    IN  /\ q.route = "resend-otp"
        /\ q.pc = "mailing"
        /\ issued' = Answer("resend-otp",
                            ResendOtpRoute(q.loaded, q.doc.emailVerificationOTP,
                                           emailSent, q.at).status,
                            "", q.member, "", q.loaded, q.at)
        /\ authCalls' = [authCalls EXCEPT ![a] = NoAuthCall]
        /\ UNCHANGED <<accounts, nextUserId>>
        /\ UNCHANGED <<ledgerVars, presenceVars, requests, raceVars>>

\* POST /verify-otp with body.userId = userId arrives and User.findById
\* resolves: the answer is sent at once unless the code is the stored one
\* and has not expired; then the copy is marked verified and user.save() is
\* awaited
VerifyOtp(a, userId, otp) ==
    LET loaded == FindById(userId)
        r == VerifyOtpRoute(loaded, otp, now)
    IN  /\ FreeAuthCall(a)
        /\ IF r.account = loaded
           THEN /\ issued' = Answer("verify-otp", r.status,
                                    IF r.token THEN loaded.email ELSE "", loaded.email,
                                    otp, loaded, now)
                /\ UNCHANGED authCalls
           ELSE /\ authCalls' = [authCalls EXCEPT ![a] =
                       [NoAuthCall EXCEPT !.route = "verify-otp", !.pc = "saving",
                                          !.member = loaded.email, !.secret = otp,
                                          !.loaded = loaded, !.doc = r.account,
                                          !.at = now]]
                /\ UNCHANGED issued
        /\ UNCHANGED <<accounts, nextUserId>>
        /\ UNCHANGED <<ledgerVars, presenceVars, requests, raceVars>>

\* user.save() resolves and the token is signed; the save of a document
\* that is no longer in the collection rejects, and the route answers 500
VerifySaved(a) ==
    LET q == authCalls[a]
    IN  /\ q.route = "verify-otp"
        /\ q.pc = "saving"
        /\ IF ~FindById(q.loaded.id).exists
           THEN /\ issued' = Answer("verify-otp", 500, "", q.member, q.secret, q.loaded, q.at)
                /\ UNCHANGED accounts
           ELSE /\ accounts' = [accounts EXCEPT ![q.member] =
                                   SaveAccount(@, q.loaded, q.doc)]
                /\ issued' = Answer("verify-otp", 200, q.member, q.member, q.secret,
                                    q.loaded, q.at)
        /\ authCalls' = [authCalls EXCEPT ![a] = NoAuthCall]
        /\ UNCHANGED nextUserId
        /\ UNCHANGED <<ledgerVars, presenceVars, requests, raceVars>>

\* await user.save() of an auth route rejects because the database fails:
\* nothing is stored and the route answers 500, verify-otp from the catch
\* around the save and the other two from the catch of the handler
AuthSaveFailed(a) ==
    LET q == authCalls[a]
    IN  /\ q.pc = "saving"
        /\ issued' = Answer(q.route, 500, "", q.member, q.secret, q.loaded, q.at)
        /\ authCalls' = [authCalls EXCEPT ![a] = NoAuthCall]
        /\ UNCHANGED <<accounts, nextUserId>>
        /\ UNCHANGED <<ledgerVars, presenceVars, requests, raceVars>>

\* POST /login arrives and User.findOne resolves: 401 when nobody has the
\* email, else user.comparePassword is awaited on the copy that was loaded
Login(a, u, password) ==
    /\ FreeAuthCall(a)
    /\ IF ~accounts[u].exists
       THEN /\ issued' = Answer("login", LoginRoute(accounts[u], password).status, "", u,
                                password, accounts[u], now)
            /\ UNCHANGED authCalls
       ELSE /\ authCalls' = [authCalls EXCEPT ![a] =
                   [NoAuthCall EXCEPT !.route = "login", !.pc = "comparing",
                                      !.member = u, !.secret = password,
                                      !.loaded = accounts[u], !.doc = accounts[u],
                                      !.at = now]]
            /\ UNCHANGED issued
    /\ UNCHANGED <<accounts, nextUserId>>
    /\ UNCHANGED <<ledgerVars, presenceVars, requests, raceVars>>

\* comparePassword resolves: the route answers from the copy it loaded,
\* whatever has been stored or deleted meanwhile
LoginCompared(a) ==
    LET q == authCalls[a]
        r == LoginRoute(q.loaded, q.secret)
    IN  /\ q.route = "login"
        /\ q.pc = "comparing"
        /\ issued' = Answer("login", r.status, IF r.token THEN q.member ELSE "", q.member,
                            q.secret, q.loaded, q.at)
        /\ authCalls' = [authCalls EXCEPT ![a] = NoAuthCall]
        /\ UNCHANGED <<accounts, nextUserId>>
        /\ UNCHANGED <<ledgerVars, presenceVars, requests, raceVars>>

\* time passes, whether or not a request is suspended at an await, for
\* MaxAuthTicks steps
AuthTick ==
    /\ now < MaxAuthTicks * ClockStep
    /\ Tick

AuthNext ==
    \/ AuthTick
    \/ \E a \in AuthIds, u \in Members, password \in Passwords, otp \in Otps :
           RegisterUser(a, u, password, otp)
    \/ \E a \in AuthIds : RegisterChecked(a)
    \/ \E a \in AuthIds : RegisterSaved(a)
    \/ \E a \in AuthIds, emailSent \in BOOLEAN : RegisterMailed(a, emailSent)
    \/ \E a \in AuthIds : RegisterDeleted(a)
    \/ \E a \in AuthIds, userId \in 1..MaxUsers, otp \in Otps : ResendOtp(a, userId, otp)
    \/ \E a \in AuthIds : ResendSaved(a)
    \/ \E a \in AuthIds, emailSent \in BOOLEAN : ResendMailed(a, emailSent)
    \/ \E a \in AuthIds, userId \in 1..MaxUsers, otp \in Otps \cup {NoOtp} :
           VerifyOtp(a, userId, otp)
    \/ \E a \in AuthIds : VerifySaved(a)
    \/ \E a \in AuthIds : AuthSaveFailed(a)
    \/ \E a \in AuthIds, u \in Members, password \in Passwords : Login(a, u, password)
    \/ \E a \in AuthIds : LoginCompared(a)

-----------------------------------------------------------------------------
(* Specifications *)

Init == LedgerInit /\ PresenceInit /\ FriendsInit /\ RaceInit /\ AuthInit

\* a new user and nobody with a friend
InitAlone == Init /\ friendsOf = [u \in Users |-> <<>>]

Next == LedgerNext \/ PresenceNext \/ FriendsNext

Spec == Init /\ [][Next]_vars

\* the ledger of one user, with no connection ever opened
SpecLedger == InitAlone /\ [][LedgerNext]_vars

\* the ledger of one user whose stop and delete requests are served one at
\* a time, while the clock runs
SpecSequence == InitAlone /\ [][SequenceNext]_vars

\* the stop route and the schedule routes of one user, overlapping
SpecPlanner == InitAlone /\ [][PlannerNext]_vars

\* a new user one step after midnight of day 0, and nobody with a friend
InitNoon ==
    CalendarInit /\ PresenceInit /\ FriendsInit /\ RaceInit /\ AuthInit /\ friendsOf = [u \in Users |-> <<>>]

\* the ledger of one user whose streak update and achievement evaluation
\* may fail
SpecFailing == InitAlone /\ [][FailingNext]_vars

\* registration, verification and login of one person, whose requests may
\* be in flight together
SpecAuth == InitAlone /\ [][AuthNext]_vars

\* stop requests of two users, suspended at their awaits, and the requests
\* to the schedule routes beside them
SpecRace == InitAlone /\ [][RaceNext]_vars

\* the stop route of one user, called with sessions as short and as long as
\* it accepts
SpecStop == InitAlone /\ [][BoundaryNext]_vars

\* the ledger of one user over the days of the calendar walk
SpecCalendar == InitNoon /\ [][CalendarNext]_vars

\* the stop route of one user over the days of the calendar walk
SpecStreak == InitNoon /\ [][StreakNext]_vars

\* a long-standing user one step after midnight of WalkStartDay, and nobody
\* with a friend
InitVeteran ==
    AwardsInit /\ PresenceInit /\ FriendsInit /\ RaceInit /\ AuthInit /\ friendsOf = [u \in Users |-> <<>>]

\* the ledger of a long-standing user over the days of the walk
SpecAwards == InitVeteran /\ [][AwardsNext]_vars

\* the presence relay, with the clock stopped, no ledger request and no
\* get_online_friends query
SpecPresence == Init /\ [][RelayNext]_vars

\* the get_online_friends query on connections that come and go
SpecQuery == Init /\ [][QueryNext]_vars

\* ann and bob are friends of each other, cat is nobody's friend
InitPair ==
    /\ LedgerInit /\ NoConnection /\ FriendsInit /\ RaceInit /\ AuthInit
    /\ friendsOf = [u \in Users |-> IF u = "ann" THEN <<"bob">>
                             ELSE IF u = "bob" THEN <<"ann">> ELSE <<>>]

\* the presence relay of two friends, with the clock running
SpecStudy == InitPair /\ [][StudyNext]_vars

\* the friend routes, from nobody having a friend
SpecFriends == InitAlone /\ [][FriendsNext]_vars

-----------------------------------------------------------------------------
(* The ledger's properties *)

SessionIds(u) == { u.studySessions[i].id : i \in 1..Len(u.studySessions) }

StoredTypes(u) == { u.achievements[i].type : i \in 1..Len(u.achievements) }

\* C1: after any sequence of recorded and removed sessions, run one at a
\* time, totalStudyTime is the sum of the durations of the sessions in
\* studySessions
C1_TotalIsSumOfDurations ==
    user.totalStudyTime = SumDurations(user.studySessions)

\* a session was removed while another one stays in the history
C1_Witness ==
    /\ resp.op = "delete"
    /\ resp.status = 200
    /\ Len(user.studySessions) >= 1
    /\ user.totalStudyTime > 0

\* C2: totalStudyTime, weeklyStudyTime and monthlyStudyTime are never
\* negative, whatever the order of the calls and the value of the clock
C2_CountersNonNegative ==
    /\ user.totalStudyTime >= 0
    /\ user.weeklyStudyTime >= 0
    /\ user.monthlyStudyTime >= 0

\* a removal has brought monthlyStudyTime to zero although a session that
\* was counted in it (it started in June) is still in the history: the
\* removed one had not been counted, and its subtraction met the clamp or
\* the time of the other session
C2_Witness ==
    /\ resp.op = "delete"
    /\ resp.status = 200
    /\ user.monthlyStudyTime = 0
    /\ \E i \in 1..Len(user.studySessions) : user.studySessions[i].startTime >= DayMs

\* C4: over a sequence of stop and removal requests served one after the
\* other, no achievement type is in the returned list of more than one call
C4_FiresAtMostOnce ==
    \A type \in DOMAIN fired : fired[type] <= 1

\* what the claim calls a session input that lacks startTime, endTime or a
\* positive numeric duration
LacksRequiredField(session) ==
    \/ ~session.isObject
    \/ session.startTime.kind = "undefined"
    \/ session.endTime.kind = "undefined"
    \/ ~(session.duration.kind = "number" /\ session.duration.v > 0)

\* C9: a call of addStudySession with such an input throws and leaves
\* studySessions, the three counters, currentStreak, lastStudyDate and
\* achievements as they were
C9_MalformedInputChangesNothing ==
    \A session \in SessionInputs(now) :
        LacksRequiredField(session) =>
            LET r == AddStudySession(user, session, now, nextId)
            IN  r.threw /\ r.user = user

\* a malformed input was rejected by a user who has sessions and a streak
\* to lose
C9_Witness ==
    /\ resp.op = "addStudySession"
    /\ resp.threw
    /\ Len(user.studySessions) >= 1
    /\ user.totalStudyTime > 0
    /\ user.currentStreak >= 1

\* C10: removing a session id that is not in the history answers 404 and
\* leaves the document as it was, so a second removal of the same session
\* subtracts nothing
C10_MissingSessionChangesNothing ==
    \A sessionId \in 1..MaxSessions :
        sessionId \notin SessionIds(user) =>
            LET r == DeleteSession(user, sessionId, now)
            IN  r.status = 404 /\ r.user = user

\* every id has been given out, one session has been removed, and a removal
\* was answered 404: it asked for the removed session a second time
C10_Witness ==
    /\ resp.op = "delete"
    /\ resp.status = 404
    /\ nextId = MaxSessions + 1
    /\ Len(user.studySessions) = MaxSessions - 1
    /\ user.totalStudyTime > 0

\* the most recent Sunday at local midnight, seen from t
SundayMidnight(t) ==
    CHOOSE m \in { Midnight(t) - k * DayMs : k \in 0..6 } : GetDay(m) = 0

\* the days of the clock that are the first of a month: 1 May, 1 June, 1 July
FirstDays ==
    LET june == Epoch.monthLengths[1] - Epoch.dayOfMonth + 1
    IN  { june - Epoch.monthLengths[1], june, june + Epoch.monthLengths[2] }

\* the first day of the calendar month t lies in
FirstOfMonthDay(t) ==
    CHOOSE d \in FirstDays :
        /\ d <= DayOf(t)
        /\ \A e \in FirstDays : e <= DayOf(t) => e <= d

\* C11: removing a session of the history answers 200, pulls the session,
\* sets totalStudyTime to max(0, totalStudyTime - duration), subtracts the
\* duration from weeklyStudyTime (clamped at 0) exactly when the session
\* started at or after the most recent Sunday midnight, and from
\* monthlyStudyTime (clamped at 0) exactly when it started at or after the
\* first day of the month of now
C11_RemovalSubtractsByWindow ==
    \A sessionId \in SessionIds(user) :
        LET session == user.studySessions[SessionIndex(user.studySessions, sessionId)]
            r == DeleteSession(user, sessionId, now)
        IN  /\ r.status = 200
            /\ r.user.studySessions = Pull(user.studySessions, sessionId)
            /\ r.user.totalStudyTime = Max(0, user.totalStudyTime - session.duration)
            /\ r.user.weeklyStudyTime =
                   IF session.startTime >= SundayMidnight(now)
                   THEN Max(0, user.weeklyStudyTime - session.duration)
                   ELSE user.weeklyStudyTime
            /\ r.user.monthlyStudyTime =
                   IF DayOf(session.startTime) >= FirstOfMonthDay(now)
                   THEN Max(0, user.monthlyStudyTime - session.duration)
                   ELSE user.monthlyStudyTime

\* C12: a removal leaves currentStreak, lastStudyDate and achievements as
\* they were, for every session id and in every state
C12_RemovalKeepsStreakAndAchievements ==
    \A sessionId \in 1..MaxSessions :
        LET r == DeleteSession(user, sessionId, now)
        IN  /\ r.user.currentStreak = user.currentStreak
            /\ r.user.lastStudyDate = user.lastStudyDate
            /\ r.user.achievements = user.achievements

\* the last session of the history was removed, and the streak and the day
\* of the last study are still there
C12_Witness ==
    /\ resp.op = "delete"
    /\ resp.status = 200
    /\ user.studySessions = <<>>
    /\ user.currentStreak >= 1
    /\ user.lastStudyDate # Undefined


\* C13: addStudySession with a valid session appends it to studySessions,
\* adds its duration to totalStudyTime, adds it to weeklyStudyTime exactly
\* when the session started at or after the most recent Sunday midnight,
\* and to monthlyStudyTime exactly when it started at or after the first day
\* of the month of now
C13_RecordAddsByWindow ==
    \A session \in DatedSessions(now) :
        LET r == AddStudySession(user, session, now, nextId)
            d == session.duration.v
            start == session.startTime.v
        IN  /\ ~r.threw
            /\ r.user.studySessions = Append(user.studySessions, Subdocument(session, nextId))
            /\ r.user.totalStudyTime = user.totalStudyTime + d
            /\ r.user.weeklyStudyTime =
                   IF start >= SundayMidnight(now)
                   THEN user.weeklyStudyTime + d ELSE user.weeklyStudyTime
            /\ r.user.monthlyStudyTime =
                   IF DayOf(start) >= FirstOfMonthDay(now)
                   THEN user.monthlyStudyTime + d ELSE user.monthlyStudyTime

\* with no removal so far, a session was counted in monthlyStudyTime but
\* not in weeklyStudyTime and another one in neither of them
C13_Witness ==
    /\ resp.op = "addStudySession"
    /\ ~resp.threw
    /\ Len(user.studySessions) = nextId - 1
    /\ user.weeklyStudyTime < user.monthlyStudyTime
    /\ user.monthlyStudyTime < user.totalStudyTime

\* C19: updateStreak follows the case table: with no lastStudyDate the
\* streak becomes 1 and lastStudyDate the session day; else, for a session
\* dated today, the streak grows by 1 when lastStudyDate is yesterday, stays
\* when it is today and becomes 1 otherwise, and lastStudyDate becomes
\* today; else neither changes
C19_StreakCaseTable ==
    \A session \in DatedSessions(now) :
        LET r == UpdateStreak(user, session.startTime, now)
            sessionDay == DayOf(session.startTime.v)
            today == DayOf(now)
        IN  IF user.lastStudyDate = Undefined
            THEN /\ r.currentStreak = 1
                 /\ r.lastStudyDate = DateOf(sessionDay * DayMs)
            ELSE IF sessionDay = today
            THEN /\ r.currentStreak =
                        CASE DayOf(user.lastStudyDate.v) = today - 1 -> user.currentStreak + 1
                          [] DayOf(user.lastStudyDate.v) = today     -> user.currentStreak
                          [] OTHER                                   -> 1
                 /\ r.lastStudyDate = DateOf(today * DayMs)
            ELSE /\ r.currentStreak = user.currentStreak
                 /\ r.lastStudyDate = user.lastStudyDate

\* a session dated today was recorded after a gap: the history holds
\* sessions of two consecutive days that ended more than a day ago, and the
\* streak is 1 again
C19_Witness ==
    /\ resp.op = "addStudySession"
    /\ ~resp.threw
    /\ Len(user.studySessions) = nextId - 1
    /\ user.currentStreak = 1
    /\ user.lastStudyDate = DateOf(Midnight(now))
    /\ \E i, j \in 1..Len(user.studySessions) :
           /\ i < j
           /\ DayOf(user.studySessions[j].startTime) = DayOf(user.studySessions[i].startTime) + 1
           /\ DayOf(user.studySessions[j].startTime) < DayOf(now) - 1

\* the number of consecutive calendar days, the last of them day d, on each
\* of which a session of the history started
RECURSIVE DaysInARow(_, _)
DaysInARow(ss, d) ==
    IF \E i \in 1..Len(ss) : DayOf(ss[i].startTime) = d
    THEN 1 + DaysInARow(ss, d - 1)
    ELSE 0

\* every session of the history was recorded (endTime) on the day it started
\* or on the day after, and none has been removed
RecordedWithinADay ==
    /\ Len(user.studySessions) = nextId - 1
    /\ \A i \in 1..Len(user.studySessions) :
           DayOf(user.studySessions[i].endTime) - DayOf(user.studySessions[i].startTime) \in {0, 1}

\* C20: after recordings of sessions that started today or the day before,
\* currentStreak is the number of consecutive calendar days, ending with the
\* day of lastStudyDate, on each of which a session of the history started
C20_StreakCountsConsecutiveDays ==
    RecordedWithinADay =>
        IF user.lastStudyDate = Undefined
        THEN user.currentStreak = 0
        ELSE user.currentStreak =
                 DaysInARow(user.studySessions, DayOf(user.lastStudyDate.v))

\* the count and streak rules, in the order of the table
CountAndStreakTable ==
    <<"first_session", "five_sessions", "twenty_five_sessions",
      "streak_3", "streak_7", "streak_30">>

\* the condition the table gives for a type
TableCondition(u, type) ==
    CASE type = "first_session"        -> Len(u.studySessions) = 1
      [] type = "five_sessions"        -> Len(u.studySessions) >= 5
      [] type = "twenty_five_sessions" -> Len(u.studySessions) >= 25
      [] type = "streak_3"             -> u.currentStreak >= 3
      [] type = "streak_7"             -> u.currentStreak >= 7
      [] type = "streak_30"            -> u.currentStreak >= 30

\* one {type, date} entry for each type of a list
EntriesFor(types, t) == [ i \in 1..Len(types) |-> [type |-> types[i], date |-> t] ]

\* C21: once the counters and the streak are updated, checkAchievements
\* returns, in table order, exactly the count and streak types whose
\* condition holds in the updated document and that are not yet stored, and
\* appends one {type, date} entry for each type it returns; that list is
\* what addStudySession returns
C21_ReturnsDueTypesInOrder ==
    \A session \in WalkSessions(now) :
        LET updated == UpdateStreak(AddToTotals(user, session, now, nextId),
                                    session.startTime, now)
            c == CheckAchievements(updated, now)
            due == SelectSeq(CountAndStreakTable,
                             LAMBDA type : /\ TableCondition(updated, type)
                                           /\ type \notin StoredTypes(user))
        IN  /\ SelectSeq(c.ret, LAMBDA type : type # "goal_achiever") = due
            /\ c.user.achievements = user.achievements \o EntriesFor(c.ret, now)
            /\ AddStudySession(user, session, now, nextId).ret = c.ret
            /\ (user = NewUser => c.ret = <<"first_session">>)

\* the days on which the sessions of ss that started at or after t - 7 days
\* sum up to the goal
DaysAtGoal(ss, goal, t) ==
    LET recent == { i \in 1..Len(ss) : ss[i].startTime >= t - 7 * DayMs }
        SumOn(d) == SumDurations(SelectSeq(ss, LAMBDA x : /\ x.startTime >= t - 7 * DayMs
                                                         /\ DayOf(x.startTime) = d))
    IN  { d \in { DayOf(ss[i].startTime) : i \in recent } : SumOn(d) >= goal }

\* C22: addStudySession returns goal_achiever exactly when it is not stored
\* yet and at least 7 calendar days have, among the sessions that started
\* in the 7 days before now, sessions that sum up to dailyGoal
C22_GoalAchieverByTrailingWeek ==
    \A session \in WalkSessions(now) :
        LET r == AddStudySession(user, session, now, nextId)
        IN  ("goal_achiever" \in SeqToSet(r.ret)) <=>
                /\ "goal_achiever" \notin StoredTypes(user)
                /\ Cardinality(DaysAtGoal(r.user.studySessions, user.dailyGoal, now)) >= 7

\* goal_achiever was returned to a user who has lowered the daily goal and
\* has 7 days of the last 7 at it
C22_Witness ==
    /\ resp.op = "addStudySession"
    /\ "goal_achiever" \in SeqToSet(resp.ret)
    /\ user.dailyGoal = MinDailyGoal
    /\ Cardinality(DaysAtGoal(user.studySessions, user.dailyGoal, now)) >= 7

\* the stop route rejects every request whose length fails inRange, and
\* every session that is stored or waits to be is as long as its end is
\* after its start, a length that passes inRange
StopKeepsLengths(InRange(_)) ==
    /\ \A i \in 1..Len(user.studySessions) :
           LET s == user.studySessions[i]
           IN  s.duration = s.endTime - s.startTime /\ InRange(s.duration)
    /\ \A h \in { g \in InFlight : handlers[g].route = "stop" } :
           LET s == handlers[h].session
           IN  s.duration.v = s.endTime.v - s.startTime.v /\ InRange(s.duration.v)
    /\ \A startTime \in BoundaryStartTimes(now), found \in {now, now + ClockStep},
          scheduleId \in ScheduleIds :
           ~InRange(now - startTime.v) =>
               LET r == StopRoute(user, startTime, scheduleId, now, found, nextId)
               IN  r.status = 400 /\ r.user = user

\* C23 as stated: every session the stop route stores has duration =
\* endTime - startTime, more than 1000 ms and at most 86,400,000 ms, and a
\* request with another length is rejected and stores nothing
C23_DurationOverOneSecond ==
    StopKeepsLengths(LAMBDA d : MinDurationMs < d /\ d <= MaxDurationMs)

\* C23 amended: every session the stop route stores has duration =
\* endTime - startTime, at least 1000 ms and at most 86,400,000 ms, and a
\* request with another length is rejected and stores nothing
C23_DurationAtLeastOneSecond ==
    StopKeepsLengths(LAMBDA d : MinDurationMs <= d /\ d <= MaxDurationMs)

\* a session of exactly one second and one of exactly 24 hours are stored,
\* and the last request was rejected
C23_Witness ==
    /\ \E i \in 1..Len(user.studySessions) : user.studySessions[i].duration = MinDurationMs
    /\ \E i \in 1..Len(user.studySessions) : user.studySessions[i].duration = MaxDurationMs
    /\ resp.op = "stop"
    /\ resp.status = 400

\* C24: whichever blocks of addStudySession fail, the call does not throw,
\* the session is appended and totalStudyTime grows by its duration; when
\* the streak update fails currentStreak and lastStudyDate are as before the
\* call, and when the achievement evaluation fails the call returns the
\* empty list
C24_FailuresAreContained ==
    \A failing \in SUBSET Blocks :
        LET session == GoodSession(now)
            r == AddStudySessionFailing(user, session, now, nextId, failing)
        IN  /\ ~r.threw
            /\ r.user.studySessions = Append(user.studySessions, Subdocument(session, nextId))
            /\ r.user.totalStudyTime = user.totalStudyTime + session.duration.v
            /\ "streak" \in failing =>
                   /\ r.user.currentStreak = user.currentStreak
                   /\ r.user.lastStudyDate = user.lastStudyDate
            /\ "achievements" \in failing =>
                   r.ret = <<>> /\ r.user.achievements = user.achievements

\* a session was recorded and counted while the streak update and the
\* achievement evaluation failed: no streak, no date, and nothing returned
C24_Witness ==
    /\ resp.op = "addStudySession"
    /\ ~resp.threw
    /\ resp.ret = <<>>
    /\ Len(user.studySessions) >= 2
    /\ user.totalStudyTime = SumDurations(user.studySessions)
    /\ user.currentStreak = 0
    /\ ~Truthy(user.lastStudyDate)

\* the counters of a document
Counters(d) ==
    <<d.totalStudyTime, d.weeklyStudyTime, d.monthlyStudyTime, d.currentStreak>>

\* the requests of u that have been answered
Done(u) == { r \in StopIds : stops[r].owner = u /\ stops[r].pc = "done" }

\* two requests of one user that both loaded the document before either
\* saved it, the second saving last of all the requests of that user
Raced(first, second) ==
    /\ stops[first].pc = "done"
    /\ second \in stops[first].overtook
    /\ stops[second].pc = "done"
    /\ stops[second].latest

\* the requests of u whose save was accepted
Accepted(u) == { r \in Done(u) : stops[r].status = 200 }

\* the ledger of a document: what the schedule routes leave alone
Ledger(d) == [d EXCEPT !.studySchedules = <<>>, !.version = 0]

\* the documents of a user hold what that user's own requests pushed: no
\* session of another user's request, none twice, and the ledger of the
\* request's document when it was the only stop request and was accepted
UsersApart ==
    \A u \in Users :
        /\ { stored[u].studySessions[i].id : i \in 1..Len(stored[u].studySessions) }
               \subseteq Accepted(u)
        /\ Len(stored[u].studySessions) <= Cardinality(Accepted(u))
        /\ \A r \in StopIds :
               ({ q \in StopIds : stops[q].owner = u /\ stops[q].pc # "idle" } = {r}
                   /\ stops[r].pc = "done" /\ stops[r].status = 200)
                   => Ledger(stored[u]) = Ledger(stops[r].doc)

\* C25 as stated: two requests of one user that both load before either
\* saves are both answered 200, and the stored totalStudyTime,
\* weeklyStudyTime, monthlyStudyTime and currentStreak are those of the
\* document the later request saved; the requests of a user leave the
\* documents of the others alone
C25_LaterDocumentWins ==
    /\ \A r \in StopIds : stops[r].pc = "done" => stops[r].status = 200
    /\ UsersApart
    /\ \A first, second \in StopIds :
           Raced(first, second) =>
               Counters(stored[stops[second].owner]) = Counters(stops[second].doc)

\* C25 amended: a stop request is answered 200, unless it marked the
\* progress of a schedule and another request of the user pushed to an array
\* of the document (a stop request, or POST /schedule) while it held its
\* copy: then it is answered 500 and leaves the ledger as it was. After a
\* later save that was accepted, totalStudyTime and every other counter the
\* later request changed are those of its document, and a counter it did
\* not change is as it was before that save; the requests of a user leave
\* the documents of the others alone
C25_LaterWriteWinsPerCounter ==
    /\ \A r \in StopIds :
           stops[r].pc = "done" =>
               stops[r].status = IF stops[r].marked /\ stops[r].overtaken THEN 500 ELSE 200
    /\ UsersApart
    /\ \A first, second \in StopIds :
           Raced(first, second) =>
               LET q == stops[second]
                   db == stored[q.owner]
               IN  IF q.status = 200
                   THEN /\ db.totalStudyTime = q.doc.totalStudyTime
                        /\ \A path \in ScalarPaths :
                               db[path] = IF q.doc[path] # q.loaded[path]
                                          THEN q.doc[path] ELSE q.before[path]
                   ELSE Ledger(db) = Ledger(q.before)

\* two requests of one user raced, and the stored monthlyStudyTime is not
\* the one of the document the later request saved: that request did not
\* change it, and the earlier save had
C25_Witness ==
    \E first, second \in StopIds :
        /\ Raced(first, second)
        /\ stops[first].status = 200
        /\ stops[second].status = 200
        /\ stops[second].doc.monthlyStudyTime = stops[second].loaded.monthlyStudyTime
        /\ stored[stops[second].owner].monthlyStudyTime # stops[second].doc.monthlyStudyTime
        /\ stored[stops[second].owner].totalStudyTime = stops[second].doc.totalStudyTime

\* C26: an answer carries a token for a user only if the request was a login
\* with that user's password and the email verified, or a verify-otp with
\* the code stored for that user, not yet expired
C26_TokenOnlyForCredentials ==
    issued.token # "" =>
        \/ /\ issued.route = "login"
           /\ issued.token = issued.userId
           /\ issued.was.exists
           /\ issued.secret = issued.was.password
           /\ issued.was.isEmailVerified
        \/ /\ issued.route = "verify-otp"
           /\ issued.token = issued.userId
           /\ issued.was.exists
           /\ issued.was.emailVerificationOTP # NoOtp
           /\ issued.secret = issued.was.emailVerificationOTP
           /\ issued.was.otpExpiresAt >= issued.at

\* C28: a session the stop route records and the delete route removes at
\* the same now leaves totalStudyTime, weeklyStudyTime and monthlyStudyTime
\* as they were before, whenever the session started
C28_RecordThenRemoveRestores ==
    \A startTime \in ClientStartTimes(now), scheduleId \in ScheduleIds :
        (user.exists /\ StopValidation(startTime, now) = 0) =>
            LET recorded == StopRoute(user, startTime, scheduleId, now, now, nextId)
                removed == DeleteSession(recorded.user, nextId, now)
            IN  /\ recorded.status = 200
                /\ removed.status = 200
                /\ removed.user.totalStudyTime = user.totalStudyTime
                /\ removed.user.weeklyStudyTime = user.weeklyStudyTime
                /\ removed.user.monthlyStudyTime = user.monthlyStudyTime

\* C29: at every now weeklyStudyTime is the sum of the durations of the
\* sessions of the history that started in the week of now, and
\* monthlyStudyTime the sum of those that started in the month of now, so
\* that the sessions of the period before are dropped when a period begins
C29_CountersFollowThePeriod ==
    /\ user.weeklyStudyTime =
           SumDurations(SelectSeq(user.studySessions,
                                  LAMBDA x : x.startTime >= SundayMidnight(now)))
    /\ user.monthlyStudyTime =
           SumDurations(SelectSeq(user.studySessions,
                                  LAMBDA x : DayOf(x.startTime) >= FirstOfMonthDay(now)))

\* the calendar days on which a session of the history was recorded (the
\* stop route sets endTime to the time of the call)
RecordingDays(u) == { DayOf(u.studySessions[i].endTime) : i \in 1..Len(u.studySessions) }

\* C30: currentStreak is at most the number of calendar days on which a
\* session was recorded and a call raises it by at most 1, and not at all
\* when lastStudyDate is already today; it is at least 1 whenever
\* lastStudyDate is set; lastStudyDate is never later than today and no
\* call moves it backwards
C30_StreakGrowsWithDays ==
    /\ user.currentStreak <= Cardinality(RecordingDays(user))
    /\ Truthy(user.lastStudyDate) =>
           /\ user.currentStreak >= 1
           /\ user.lastStudyDate.v <= Midnight(now)
    /\ \A startTime \in WalkStartTimes(now), scheduleId \in ScheduleIds :
           LET r == StopRoute(user, startTime, scheduleId, now, now, nextId)
           IN  /\ r.status = 200
               /\ r.user.currentStreak <= user.currentStreak + 1
               /\ Truthy(user.lastStudyDate) =>
                      /\ r.user.lastStudyDate.v >= user.lastStudyDate.v
                      /\ user.lastStudyDate.v = Midnight(now) =>
                             r.user.currentStreak = user.currentStreak

-----------------------------------------------------------------------------
(* The presence relay's properties *)

PresenceEvents ==
    {"friend_online", "friend_offline", "friend_started_studying", "friend_stopped_studying"}

\* the users whose connections received the event published last
Receivers == { sockets[s].userId : s \in { r \in SocketIds : lastEmit.copies[r] > 0 } }

\* C5: an event that carries the identity of user U reaches only connections
\* of U's friends (U's own connections are not counted against the claim)
C5_OnlyFriendsReceive ==
    lastEmit.event \in PresenceEvents
        => Receivers \subseteq (SeqToSet(friendsOf[lastEmit.about]) \cup {lastEmit.about})

\* the connections of u whose connection handler has run to its end and that
\* are still open
LiveSockets(u) ==
    { s \in SocketIds : sockets[s].userId = u /\ sockets[s].phase = "ready"
                        /\ sockets[s].connected }

\* the connections of u whose lookup is still pending
PendingSockets(u) ==
    { s \in SocketIds : sockets[s].userId = u /\ sockets[s].phase = "loading" }

\* C6: a user id is a key of activeUsers exactly when the user has a live
\* connection (stated for the users none of whose connections is still
\* waiting for its lookup)
C6_RegisteredIffConnected ==
    \A u \in Users :
        PendingSockets(u) = {} => (activeUsers[u].present <=> LiveSockets(u) # {})

\* C7: a connection that has closed and for which friend_online was published
\* has had friend_offline published, and the registry entry it created is gone
C7_ClosedConnectionIsRetracted ==
    \A s \in SocketIds :
        (sockets[s].phase = "ready" /\ ~sockets[s].connected)
            => /\ sockets[s].offlineSent
               /\ ~(activeUsers[sockets[s].userId].present
                    /\ activeUsers[sockets[s].userId].socketId = s)

\* the connections whose get_online_friends handler can run
QueryableSockets ==
    { s \in SocketIds : sockets[s].phase = "ready" /\ sockets[s].connected }

\* C8, as claimed: get_online_friends returns exactly the candidate ids that
\* are keys of the registry, and changes neither the registry nor a marker
C8_ReturnsRegisteredCandidates ==
    \A s \in QueryableSockets, ids \in CandidateLists :
        LET h == OnlineFriendsHandler(ids, sockets[s].friendIds, activeUsers)
        IN  /\ SeqToSet(h.ids) = SeqToSet(ids) \cap ActiveUserIds(activeUsers)
            /\ h.registry = activeUsers

\* C8, amended: for a list that is not empty it returns exactly the
\* candidates that are keys of the registry; for an empty list it returns the
\* friends of the connection, as loaded when it was opened, that are keys of
\* the registry; it changes neither the registry nor a marker
C8_ReturnsRegisteredCandidatesOrFriends ==
    \A s \in QueryableSockets, ids \in CandidateLists :
        LET h == OnlineFriendsHandler(ids, sockets[s].friendIds, activeUsers)
        IN  /\ ids # <<>> =>
                 SeqToSet(h.ids) = SeqToSet(ids) \cap ActiveUserIds(activeUsers)
            /\ ids = <<>> =>
                 SeqToSet(h.ids) = SeqToSet(sockets[s].friendIds) \cap ActiveUserIds(activeUsers)
            /\ h.registry = activeUsers

\* a query was answered with an id while another user, who is not in the
\* answer, was registered too
C8_Witness ==
    /\ reply.sent
    /\ lastEmit = NoEmit
    /\ reply.ids # <<>>
    /\ \E u \in ActiveUserIds(activeUsers) : u \notin SeqToSet(reply.ids)

\* C14: the events a connection publishes begin with friend_online and end
\* with friend_offline, and no friend_stopped_studying about a user is
\* published unless a friend_started_studying about that user came before
\* it and has not been answered yet; every handler publishes in one step,
\* so the order of publication is the order of the user's actions
C14_EventsInOrder ==
    /\ \A s \in SocketIds : order.conn[s] # "bad"
    /\ \A u \in Users : order.study[u] # "bad"
    /\ \A s \in SocketIds : sockets[s].offlineSent => order.conn[s] = "closed"

\* a connection that published friend_online and friend_started_studying
\* has just published friend_offline, and a connection of a friend got it
C14_Witness ==
    /\ lastEmit.event = "friend_offline"
    /\ \E r \in SocketIds : lastEmit.copies[r] > 0
    /\ order.study[lastEmit.about] = "studying"
    /\ \E s \in SocketIds : sockets[s].userId = lastEmit.about /\ order.conn[s] = "closed"

\* C15: a connection whose lookup failed is terminated and has had no other
\* effect: it has published nothing, joined no room, loaded no friend list,
\* and no registry entry carries its socket id
C15_FailedLoadHasNoEffect ==
    \A s \in SocketIds :
        sockets[s].phase = "rejected" =>
            /\ ~sockets[s].connected
            /\ order.conn[s] = "none"
            /\ sockets[s].rooms = {}
            /\ sockets[s].friendIds = <<>>
            /\ ~sockets[s].offlineSent
            /\ ~(activeUsers[sockets[s].userId].present
                 /\ activeUsers[sockets[s].userId].socketId = s)

\* the lookup of a user failed while a friend of that user was registered with
\* a live connection: nothing was published and the user has no entry
C15_Witness ==
    \E s \in SocketIds :
        /\ sockets[s].phase = "rejected"
        /\ lastEmit = NoEmit
        /\ reply = NoReply
        /\ ~activeUsers[sockets[s].userId].present
        /\ \E f \in SeqToSet(friendsOf[sockets[s].userId]) :
               activeUsers[f].present /\ LiveSockets(f) # {}

\* C16: the registry holds one entry for a user, that of the connection
\* registered last: registering a connection whose lookup is pending gives
\* the user an entry with the socket id and the friend list of that
\* connection and no marker, whatever entry the user had, and leaves the
\* entries of the other users alone; and the entry a user has is the one a
\* connection of that user wrote
C16_LastRegistrationWins ==
    /\ \A s \in SocketIds :
           sockets[s].phase = "loading" =>
               LET u == sockets[s].userId
                   r == Register(activeUsers, s, u, friendsOf[u], now)
               IN  /\ r[u].present
                   /\ r[u].socketId = s
                   /\ r[u].friends = friendsOf[u]
                   /\ r[u].studySession = NoStudySession
                   /\ \A v \in Users \ {u} : r[v] = activeUsers[v]
    /\ \A u \in Users :
           activeUsers[u].present =>
               \E s \in SocketIds :
                   /\ activeUsers[u].socketId = s
                   /\ sockets[s].userId = u
                   /\ sockets[s].phase = "ready"
                   /\ activeUsers[u].friends = sockets[s].friendIds

\* a user connected twice and no connection was closed: the entry is the one
\* of the second connection, which replaced the one of the first
C16_Witness ==
    \E u \in Users :
        /\ activeUsers[u].present
        /\ activeUsers[u].socketId = 2
        /\ \A s \in {1, 2} :
               sockets[s].userId = u /\ sockets[s].phase = "ready" /\ sockets[s].connected

\* C17: stop_study with a marker publishes friend_stopped_studying with
\* duration = now - marker start, which is not negative, to every live
\* connection of every friend, and clears the marker; with no marker, or no
\* entry, it publishes nothing and leaves the registry as it was
C17_StopPublishesElapsed ==
    \A s \in QueryableSockets :
        LET u == sockets[s].userId
            marker == activeUsers[u].studySession
            h == StopStudyHandler(activeUsers, u, sockets[s].friendIds, sockets, now)
        IN  IF activeUsers[u].present /\ marker.active
            THEN /\ h.emit.event = "friend_stopped_studying"
                 /\ h.emit.about = u
                 /\ h.emit.duration = now - marker.startTime
                 /\ h.emit.duration >= 0
                 /\ h.registry[u] = [activeUsers[u] EXCEPT !.studySession = NoStudySession]
                 /\ \A v \in Users \ {u} : h.registry[v] = activeUsers[v]
                 /\ \A f \in SeqToSet(sockets[s].friendIds) :
                        \A r \in LiveSockets(f) : h.emit.copies[r] >= 1
            ELSE /\ h.emit = NoEmit
                 /\ h.registry = activeUsers

\* a stop some time after the start was published to a connection of a friend
C17_Witness ==
    /\ lastEmit.event = "friend_stopped_studying"
    /\ lastEmit.duration > 0
    /\ lastEmit.duration < now
    /\ \E r \in SocketIds : lastEmit.copies[r] >= 1
    /\ ~activeUsers[lastEmit.about].studySession.active

\* C18: when no friend request is between two of its updates, a is a
\* friend of b exactly when b is a friend of a
C18_FriendsSymmetricWhenSettled ==
    Settled =>
        \A a, b \in Users : (b \in SeqToSet(friendsOf[a])) <=> (a \in SeqToSet(friendsOf[b]))

\* C27: of an event a user publishes, every live connection of each of that
\* user's friends receives exactly one copy, whoever else is whose friend
C27_OneCopyPerFriend ==
    lastEmit.event \in PresenceEvents =>
        \A f \in SeqToSet(friendsOf[lastEmit.about]) :
            \A s \in LiveSockets(f) : lastEmit.copies[s] = 1

====
